---------------------------- MODULE Spec2Model ----------------------------
(***************************************************************************)
(* Model of the headless music player of src/backend/music_player.py       *)
(* (class YouTubeMusicPlayer): the public operations, the background       *)
(* play/search threads they spawn, the monitor thread, the lock, and the   *)
(* external mpv processes.                                                  *)
(*                                                                         *)
(* Strings are sequences of tokens; the token "|" is the field separator   *)
(* of the provider's output line.                                          *)
(***************************************************************************)
EXTENDS Integers, Sequences, FiniteSets, TLC

\* ------------------------------------------------------------------ bounds
\* threads spawned after construction (workers and monitors)
MaxThreads == 3
\* mpv processes spawned
MaxProcs == 3
\* public operations the caller issues in one behaviour
MaxCalls == 2
\* length of the queue
MaxQueue == 3
\* calls the caller makes of the MusicService
MaxServiceCalls == 3
\* mpv processes the MusicService starts
MaxServiceProcs == 3
\* background threads the MusicService starts
MaxJobs == 3

\* ------------------------------------------------------------------ values
\* Python's None, for a track, a query or a call record that is not set
None == <<>>
\* Python's None for the process handle (process ids start at 1)
NoProcess == 0
\* Python's None for a thread reference, and the free lock (thread ids start at 1)
NoThread == 0

\* the caller's thread; spawned threads are 2, 3, ... in spawn order
Caller == 1

\* what the provider can find: id, title, uploader, duration
ProviderRecords ==
  { [id |-> <<"A">>, title |-> <<"tA">>, uploader |-> <<"uA">>, duration |-> <<"1">>],
    [id |-> <<"B">>, title |-> <<"tB">>, uploader |-> <<"uB">>, duration |-> <<"2">>],
    [id |-> <<"C">>, title |-> <<"tC">>, uploader |-> <<"uC">>, duration |-> <<"3">>] }

\* the line yt-dlp prints for a record: '%(id)s|%(title)s|%(uploader)s|%(duration)s'
PrintRecord(r) ==
  r.id \o <<"|">> \o r.title \o <<"|">> \o r.uploader \o <<"|">> \o r.duration

\* str.split('|'): the fields between the separators
RECURSIVE Split(_)
Split(s) ==
  IF \A i \in 1..Len(s) : s[i] # "|"
    THEN <<s>>
    ELSE LET k == CHOOSE i \in 1..Len(s) :
                    s[i] = "|" /\ \A j \in 1..(i-1) : s[j] # "|"
         IN  <<SubSeq(s, 1, k-1)>> \o Split(SubSeq(s, k+1, Len(s)))

\* the queries a caller passes: one per record
CallerQueries == { <<"q">> \o r.id : r \in ProviderRecords }

\* next_track's fallback query: f"{title} similar songs"
SimilarQuery(title) == title \o <<" similar songs">>

\* the record a "<title> similar songs" search finds for each title
SimilarRecord(query) ==
  CHOOSE r \in ProviderRecords :
    \E s \in ProviderRecords :
      /\ query = SimilarQuery(s.title)
      /\ r.id = (CASE s.id = <<"A">> -> <<"B">>
                   [] s.id = <<"B">> -> <<"C">>
                   [] OTHER -> <<"A">>)

\* What one run of the provider (subprocess.run of yt-dlp, timeout 15) can
\* give for a query: a timeout, a non-zero exit, or exit 0 with a stdout that
\* is empty, malformed (fewer than four fields) or the line of the record the
\* search finds.
ProviderRuns(query) ==
  LET found == IF query \in CallerQueries
                 THEN CHOOSE r \in ProviderRecords : query = <<"q">> \o r.id
                 ELSE SimilarRecord(query)
  IN  { [timeout |-> TRUE, returncode |-> 0, stdout |-> <<>>],
        [timeout |-> FALSE, returncode |-> 1, stdout |-> <<>>],
        [timeout |-> FALSE, returncode |-> 0, stdout |-> <<>>],
        [timeout |-> FALSE, returncode |-> 0, stdout |-> <<"A", "|", "tA">>],
        [timeout |-> FALSE, returncode |-> 0, stdout |-> PrintRecord(found)] }

\* MakeTrack with the title taken from the uploader's field: a faulty variant
\* that C3 has to tell from MakeTrack
MakeTrackShifted(parts, query) ==
  [id |-> parts[1], title |-> parts[3], artist |-> parts[3], duration |-> parts[4],
   url |-> <<"https://www.youtube.com/watch?v=">> \o parts[1], query |-> query]

\* the track dictionary built from the parsed fields
MakeTrack(parts, query) ==
  [id |-> parts[1], title |-> parts[2], artist |-> parts[3], duration |-> parts[4],
   url |-> <<"https://www.youtube.com/watch?v=">> \o parts[1], query |-> query]

\* ResolveTrack that takes empty output for a result: a faulty variant that
\* C18 has to tell from ResolveTrack
ResolveTrackOfEmpty(run, query) ==
  IF run.timeout \/ run.returncode # 0 THEN None
  ELSE IF run.stdout = <<>> THEN MakeTrack(<< <<>>, <<>>, <<>>, <<>> >>, query)
  ELSE IF Len(Split(run.stdout)) < 4 THEN None
  ELSE MakeTrack(Split(run.stdout), query)

\* The result of the search part of search_and_play / add_to_queue on one
\* provider run: None for every failure, else the track.
ResolveTrack(run, query) ==
  IF run.timeout THEN None
  ELSE IF run.returncode # 0 THEN None
  ELSE IF run.stdout = <<>> THEN None
  ELSE IF Len(Split(run.stdout)) < 4 THEN None
  ELSE MakeTrack(Split(run.stdout), query)

\* the track a caller's query resolves to
TrackOf(r) == MakeTrack(Split(PrintRecord(r)), <<"q">> \o r.id)
TrackA == TrackOf(CHOOSE r \in ProviderRecords : r.id = <<"A">>)
TrackB == TrackOf(CHOOSE r \in ProviderRecords : r.id = <<"B">>)
TrackC == TrackOf(CHOOSE r \in ProviderRecords : r.id = <<"C">>)

\* list.index(x): position of the first equal element (0-based, as in the code)
IndexOf(queue, x) ==
  (CHOOSE i \in 1..Len(queue) : queue[i] = x /\ \A j \in 1..(i-1) : queue[j] # x) - 1

InQueue(queue, x) == \E i \in 1..Len(queue) : queue[i] = x

\* ------------------------------------------------------------------ state
VARIABLES
  mpv_process,              \* self.mpv_process: None or a process id
  current_track,            \* self.current_track: None or a track
  is_playing,               \* self.is_playing
  is_paused,                \* self.is_paused
  track_queue,              \* self.track_queue
  track_history,            \* self.track_history
  current_queue_index,      \* self.current_queue_index (0-based, -1 if none)
  monitor_thread,           \* self._monitor_thread: None or a thread id
  should_stop_monitoring,   \* self._should_stop_monitoring
  lock,                     \* self._lock: None or the thread that holds it
  procs,                    \* the mpv processes spawned so far, by process id:
                            \*   "running", "ended" (exited on its own),
                            \*   "failed" (exited on its own, exit code not 0),
                            \*   "killed" (terminated or killed by the player)
  threads,                  \* the threads, by thread id: the caller, then the
                            \*   spawned ones: [op, pc, query, track, ret]
  calls,                    \* number of public operations the caller has begun
  pre,                      \* the state at the caller's current call
  child,                    \* the thread the caller's current call spawned
  service                   \* the MusicService of src/services/music_service.py:
                            \*   its fields, app_state's music flags, its
                            \*   processes, pending `finished` signals, threads

\* the variables of the YouTubeMusicPlayer
backend == << mpv_process, current_track, is_playing, is_paused, track_queue,
              track_history, current_queue_index, monitor_thread,
              should_stop_monitoring, lock, procs, threads, calls, pre, child >>

vars == << backend, service >>

player == << current_track, is_playing, is_paused, track_queue, track_history,
             current_queue_index >>

\* ------------------------------------------------------------------ threads
\* A thread: the operation it runs, where it is in it, the operation's query
\* and track, the thread it is joining, what the operation returned, the
\* exception that ended it ("None" for none), whether a join of this
\* thread has timed out, and the dictionary get_status is building or has
\* returned.
NewThread(op, pc, query, track) ==
  [op |-> op, pc |-> pc, query |-> query, track |-> track, join |-> NoThread,
   ret |-> "None", exc |-> "None", late |-> FALSE, status |-> None]

Tids == 1..Len(threads)

\* Thread.is_alive()
IsAlive(t) == threads[t].pc # "done"

\* the spawned threads that run search_and_play or _play_track
Workers == { t \in Tids : t # Caller /\ threads[t].op \in {"search_and_play", "_play_track"} }
Monitors == { t \in Tids : threads[t].op = "_monitor_playback" }

\* a monitor that is in its loop: it has seen no end of track
Watching(t) == threads[t].pc \in {"mon_loop", "mon_poll", "mon_poll2"}

\* no worker is at work and no monitor is reporting an end of track
Quiet == \A t \in Tids \ {Caller} : IsAlive(t) => Watching(t)

LiveProcs == { p \in 1..Len(procs) : procs[p] = "running" }

\* thread t of the thread table T moves to pc
Goto(T, t, pc) == [T EXCEPT ![t].pc = pc]

\* thread t returns val from its operation: the caller is idle again, a
\* spawned thread is finished
Return(T, t, val) ==
  [T EXCEPT ![t].pc = IF t = Caller THEN "idle" ELSE "done", ![t].ret = val]

\* the operation of thread t ends in its exception handler, which returns False
Raise(T, t, exc) == [Return(T, t, "False") EXCEPT ![t].exc = exc]

\* terminate()/kill() of process p: a process that already exited stays so
Killed(p) == [procs EXCEPT ![p] = IF procs[p] = "running" THEN "killed" ELSE procs[p]]

\* the state a call of the caller starts from: the player's fields, the state
\* of the process it holds, the number of processes spawned so far, the
\* caller's previous call and what it returned, the play/search workers that
\* earlier skips or an auto-advance have left at work,
\* and whether other threads are at work (quiet: no
\* worker and no reporting monitor; settled: at most the monitor the player
\* holds, watching; alone: none)
Snapshot ==
  [current_track |-> current_track, is_playing |-> is_playing, is_paused |-> is_paused,
   track_queue |-> track_queue, track_history |-> track_history,
   current_queue_index |-> current_queue_index,
   proc |-> IF mpv_process = NoProcess THEN "None" ELSE procs[mpv_process],
   spawned |-> Len(procs),
   last |-> [op |-> threads[Caller].op, ret |-> threads[Caller].ret],
   workers |-> { t \in Workers : IsAlive(t) },
   quiet |-> Quiet,
   settled |-> \A t \in Tids \ {Caller} : IsAlive(t) => t = monitor_thread /\ Watching(t),
   alone |-> \A t \in Tids \ {Caller} : ~IsAlive(t)]

\* ------------------------------------------------------------------ the caller
\* The caller's thread when it enters a public operation.  The first step of
\* the operation is taken with the call.
Enter(op, pc, query) == [threads EXCEPT ![Caller] = NewThread(op, pc, query, None)]

\* the caller is idle and has a call left: the call is counted and the state
\* it starts from is kept
Begin ==
  /\ threads[Caller].pc = "idle"
  /\ calls < MaxCalls
  /\ calls' = calls + 1
  /\ pre' = Snapshot
  /\ child' = NoThread
  /\ UNCHANGED service

\* a step that is not the start of a call
Within == UNCHANGED << calls, pre, child, service >>

\* ------------------------------------------------------------------ the lock
\* `with self._lock:` entered at each of these places
LockedSection(pc) ==
  CASE pc = "pt_lock" -> "pt_update"
    [] pc = "st_lock" -> "st_update"
    [] pc = "mon_lock" -> "mon_set"
    [] pc = "nt_lock" -> "nt_body"
    [] pc = "pv_lock" -> "pv_body"
    [] pc = "pa_lock" -> "pa_set"
    [] pc = "re_lock" -> "re_set"
    [] pc = "aq_lock" -> "aq_append"
    [] pc = "gs_lock" -> "gs_flags"
    [] OTHER -> ""

Acquire(T, t) ==
  /\ LockedSection(T[t].pc) # ""
  /\ lock = NoThread
  /\ lock' = t
  /\ threads' = Goto(T, t, LockedSection(T[t].pc))
  /\ UNCHANGED << mpv_process, player, monitor_thread, should_stop_monitoring, procs >>

AcquireLock(t) == Acquire(threads, t) /\ Within

\* next_track() and previous_track() start with the lock
CallNextTrack == Begin /\ Acquire(Enter("next_track", "nt_lock", None), Caller)
CallPreviousTrack == Begin /\ Acquire(Enter("previous_track", "pv_lock", None), Caller)

\* ------------------------------------------------------------------ search_and_play
\* lines 79-135 up to the call of _play_track: one run of the provider
Search(T, t) ==
  /\ T[t].pc = "search"
  /\ \E run \in ProviderRuns(T[t].query) :
       LET track == ResolveTrack(run, T[t].query)
       IN  threads' = IF track = None
                        THEN Return(T, t, "False")
                        ELSE [T EXCEPT ![t].pc = "sm_check", ![t].track = track]
  /\ UNCHANGED << mpv_process, player, monitor_thread, should_stop_monitoring,
                  lock, procs >>

SearchAndPlay(t) == Search(threads, t) /\ Within

CallSearchAndPlay ==
  \E q \in CallerQueries : Begin /\ Search(Enter("search_and_play", "search", q), Caller)

\* ------------------------------------------------------------------ _stop_mpv
\* where _stop_mpv returns to: stop() goes on to clear the state, _play_track
\* to spawn the new process
AfterStopMpv(op) == IF op = "stop" THEN "st_lock" ELSE "popen"

\* `if self.mpv_process:`
StopMpvCheck(t) ==
  /\ threads[t].pc = "sm_check"
  /\ threads' = Goto(threads, t, IF mpv_process = NoProcess
                                   THEN AfterStopMpv(threads[t].op)
                                   ELSE "sm_term")
  /\ UNCHANGED << mpv_process, player, monitor_thread, should_stop_monitoring,
                  lock, procs >>
  /\ Within

\* self.mpv_process.terminate(); self.mpv_process.wait(timeout=3): the handle is
\* read again; on None the AttributeError is caught.  The process exits in time,
\* or the wait times out.
StopMpvTerminate(t) ==
  /\ threads[t].pc = "sm_term"
  /\ IF mpv_process = NoProcess
       THEN threads' = Goto(threads, t, "sm_finally") /\ UNCHANGED procs
       ELSE \/ procs' = Killed(mpv_process) /\ threads' = Goto(threads, t, "sm_finally")
            \/ /\ procs[mpv_process] = "running"
               /\ threads' = Goto(threads, t, "sm_kill")
               /\ UNCHANGED procs
  /\ UNCHANGED << mpv_process, player, monitor_thread, should_stop_monitoring,
                  lock >>
  /\ Within

\* except subprocess.TimeoutExpired: self.mpv_process.kill(): on None the
\* AttributeError leaves _stop_mpv (after the finally) and the operation's own
\* handler returns False
StopMpvKill(t) ==
  /\ threads[t].pc = "sm_kill"
  /\ IF mpv_process = NoProcess
       THEN threads' = Raise(threads, t, "AttributeError") /\ UNCHANGED procs
       ELSE procs' = Killed(mpv_process) /\ threads' = Goto(threads, t, "sm_finally")
  /\ UNCHANGED << mpv_process, player, monitor_thread, should_stop_monitoring,
                  lock >>
  /\ Within

\* _stop_mpv without `finally: self.mpv_process = None`: a faulty variant
\* that C33 has to tell from StopMpvFinally
StopMpvFinallyKeeping(t) ==
  /\ threads[t].pc = "sm_finally"
  /\ threads' = Goto(threads, t, AfterStopMpv(threads[t].op))
  /\ UNCHANGED << mpv_process, player, monitor_thread, should_stop_monitoring,
                  lock, procs >>
  /\ Within

\* finally: self.mpv_process = None
StopMpvFinally(t) ==
  /\ threads[t].pc = "sm_finally"
  /\ mpv_process' = NoProcess
  /\ threads' = Goto(threads, t, AfterStopMpv(threads[t].op))
  /\ UNCHANGED << player, monitor_thread, should_stop_monitoring, lock, procs >>
  /\ Within

\* ------------------------------------------------------------------ _play_track
\* self.mpv_process = subprocess.Popen([...]): the process is spawned, or Popen
\* raises and _play_track returns False
Popen(t) ==
  /\ threads[t].pc = "popen"
  /\ \/ /\ Len(procs) < MaxProcs
        /\ procs' = Append(procs, "running")
        /\ mpv_process' = Len(procs) + 1
        /\ threads' = Goto(threads, t, "pt_lock")
     \/ /\ threads' = Raise(threads, t, "OSError")
        /\ UNCHANGED << procs, mpv_process >>
  /\ UNCHANGED << player, monitor_thread, should_stop_monitoring, lock >>
  /\ Within

\* record_played without its test of the last entry: a faulty variant that
\* C16 has to tell from RecordPlayed
RecordPlayedAlways(history, track) == Append(history, track)

\* record_played that appends only to an empty history: a faulty variant
\* that C31 has to tell from RecordPlayed
RecordPlayedFirstOnly(history, track) ==
  IF history = <<>> THEN Append(history, track) ELSE history

\* record_played: append unless the last entry has the same id
RecordPlayed(history, track) ==
  IF history = <<>> \/ history[Len(history)].id # track.id
    THEN Append(history, track)
    ELSE history

\* index_after_play that takes the position counted from one: a faulty
\* variant that C36 has to tell from IndexAfterPlay
IndexAfterPlayFromOne(queue, index, track) ==
  IF InQueue(queue, track) THEN IndexOf(queue, track) + 1 ELSE index

\* the queue index after a track has started
IndexAfterPlay(queue, index, track) ==
  IF InQueue(queue, track) THEN IndexOf(queue, track) ELSE index

\* _play_track's update that also appends a track missing from the queue: a
\* faulty variant that C32 has to tell from PlayTrackUpdate
PlayTrackUpdateEnqueuing(t) ==
  /\ threads[t].pc = "pt_update"
  /\ lock = t
  /\ current_track' = threads[t].track
  /\ is_playing' = TRUE
  /\ is_paused' = FALSE
  /\ track_history' = RecordPlayed(track_history, threads[t].track)
  /\ track_queue' =
       IF InQueue(track_queue, threads[t].track) \/ Len(track_queue) >= MaxQueue
         THEN track_queue
         ELSE Append(track_queue, threads[t].track)
  /\ current_queue_index' =
       IndexAfterPlay(track_queue', current_queue_index, threads[t].track)
  /\ lock' = NoThread
  /\ threads' = Goto(threads, t, "smon_flag")
  /\ UNCHANGED << mpv_process, monitor_thread, should_stop_monitoring, procs >>
  /\ Within

\* with self._lock: the state update of _play_track
PlayTrackUpdate(t) ==
  /\ threads[t].pc = "pt_update"
  /\ lock = t
  /\ current_track' = threads[t].track
  /\ is_playing' = TRUE
  /\ is_paused' = FALSE
  /\ track_history' = RecordPlayed(track_history, threads[t].track)
  /\ current_queue_index' =
       IndexAfterPlay(track_queue, current_queue_index, threads[t].track)
  /\ lock' = NoThread
  /\ threads' = Goto(threads, t, "smon_flag")
  /\ UNCHANGED << mpv_process, track_queue, monitor_thread,
                  should_stop_monitoring, procs >>
  /\ Within

\* ------------------------------------------------------------------ the monitor's start and stop
\* where _stop_monitoring returns to
AfterStopMonitoring(op) == IF op = "stop" THEN "sm_check" ELSE "smon_start"

\* _stop_monitoring: the flag is set; a live monitor thread is joined
SetStopFlag(T, t) ==
  /\ T[t].pc = "smon_flag"
  /\ should_stop_monitoring' = TRUE
  /\ threads' = IF monitor_thread # NoThread /\ IsAlive(monitor_thread)
                  THEN [T EXCEPT ![t].pc = "smon_join", ![t].join = monitor_thread]
                  ELSE Goto(T, t, AfterStopMonitoring(T[t].op))
  /\ UNCHANGED << mpv_process, player, monitor_thread, lock, procs >>

StopMonitoring(t) == SetStopFlag(threads, t) /\ Within

\* stop() starts with _stop_monitoring
CallStop == Begin /\ SetStopFlag(Enter("stop", "smon_flag", None), Caller)

\* join(timeout=2) returns because the joined thread has finished
JoinMonitorFinished(t) ==
  /\ threads[t].pc = "smon_join"
  /\ ~IsAlive(threads[t].join)
  /\ threads' = [threads EXCEPT ![t].pc = AfterStopMonitoring(threads[t].op),
                                ![t].join = NoThread]
  /\ UNCHANGED << mpv_process, player, monitor_thread, should_stop_monitoring,
                  lock, procs >>
  /\ Within

\* join(timeout=2) returns because the two seconds are over: the joined
\* thread is still alive
JoinMonitorTimeout(t) ==
  /\ threads[t].pc = "smon_join"
  /\ IsAlive(threads[t].join)
  /\ threads' = [threads EXCEPT ![t].pc = AfterStopMonitoring(threads[t].op),
                                ![t].join = NoThread,
                                ![threads[t].join].late = TRUE]
  /\ UNCHANGED << mpv_process, player, monitor_thread, should_stop_monitoring,
                  lock, procs >>
  /\ Within

\* _start_monitor after its _stop_monitoring: the flag is cleared and a new
\* monitor thread is started (its track is the one _play_track was called
\* with, the track it is started for); _play_track returns True
StartMonitor(t) ==
  /\ threads[t].pc = "smon_start"
  /\ Len(threads) < 1 + MaxThreads
  /\ should_stop_monitoring' = FALSE
  /\ monitor_thread' = Len(threads) + 1
  /\ threads' = Append(Return(threads, t, "True"),
                       NewThread("_monitor_playback", "mon_loop", None, threads[t].track))
  /\ UNCHANGED << mpv_process, player, lock, procs >>
  /\ Within

\* ------------------------------------------------------------------ stop
\* StopUpdate that clears the history with the queue: a faulty variant that
\* C11 has to tell from StopUpdate
StopUpdateAll(t) ==
  /\ threads[t].pc = "st_update"
  /\ lock = t
  /\ current_track' = None
  /\ is_playing' = FALSE
  /\ is_paused' = FALSE
  /\ track_queue' = <<>>
  /\ track_history' = <<>>
  /\ current_queue_index' = -1
  /\ lock' = NoThread
  /\ threads' = Return(threads, t, "True")
  /\ UNCHANGED << mpv_process, monitor_thread, should_stop_monitoring, procs >>
  /\ Within

\* StopUpdate that leaves is_playing as it is: a faulty variant that C37 has
\* to tell from StopUpdate
StopUpdateStillPlaying(t) ==
  /\ threads[t].pc = "st_update"
  /\ lock = t
  /\ current_track' = None
  /\ is_paused' = FALSE
  /\ track_queue' = <<>>
  /\ current_queue_index' = -1
  /\ lock' = NoThread
  /\ threads' = Return(threads, t, "True")
  /\ UNCHANGED << mpv_process, is_playing, track_history, monitor_thread,
                  should_stop_monitoring, procs >>
  /\ Within

\* with self._lock: the state is cleared (the history is kept); stop returns True
StopUpdate(t) ==
  /\ threads[t].pc = "st_update"
  /\ lock = t
  /\ current_track' = None
  /\ is_playing' = FALSE
  /\ is_paused' = FALSE
  /\ track_queue' = <<>>
  /\ current_queue_index' = -1
  /\ lock' = NoThread
  /\ threads' = Return(threads, t, "True")
  /\ UNCHANGED << mpv_process, track_history, monitor_thread,
                  should_stop_monitoring, procs >>
  /\ Within

\* ------------------------------------------------------------------ _monitor_playback
\* `while not self._should_stop_monitoring:` and the sleep of one second
MonitorLoop(t) ==
  /\ threads[t].pc = "mon_loop"
  /\ threads' = IF should_stop_monitoring THEN Return(threads, t, "None") ELSE Goto(threads, t, "mon_poll")
  /\ UNCHANGED << mpv_process, player, monitor_thread, should_stop_monitoring,
                  lock, procs >>
  /\ Within

\* `if self.mpv_process:`
MonitorCheck(t) ==
  /\ threads[t].pc = "mon_poll"
  /\ threads' = Goto(threads, t, IF mpv_process = NoProcess THEN "mon_loop" ELSE "mon_poll2")
  /\ UNCHANGED << mpv_process, player, monitor_thread, should_stop_monitoring,
                  lock, procs >>
  /\ Within

\* the monitor's poll that takes only an exit code of 0 for the end of the
\* track: a faulty variant that C39 has to tell from MonitorPoll
MonitorPollZeroOnly(t) ==
  /\ threads[t].pc = "mon_poll2"
  /\ threads' = IF mpv_process = NoProcess THEN Raise(threads, t, "AttributeError")
                ELSE IF procs[mpv_process] = "running" THEN Goto(threads, t, "mon_loop")
                ELSE IF procs[mpv_process] = "failed" THEN Return(threads, t, "None")
                ELSE Goto(threads, t, "mon_lock")
  /\ UNCHANGED << mpv_process, player, monitor_thread, should_stop_monitoring,
                  lock, procs >>
  /\ Within

\* `self.mpv_process.poll()`: the handle is read again; on None the
\* AttributeError ends the thread.  A process that is not running has ended.
MonitorPoll(t) ==
  /\ threads[t].pc = "mon_poll2"
  /\ threads' = IF mpv_process = NoProcess THEN Raise(threads, t, "AttributeError")
                ELSE IF procs[mpv_process] = "running" THEN Goto(threads, t, "mon_loop")
                ELSE Goto(threads, t, "mon_lock")
  /\ UNCHANGED << mpv_process, player, monitor_thread, should_stop_monitoring,
                  lock, procs >>
  /\ Within

\* the monitor's reset with next_track() called inside `with self._lock`: a
\* faulty variant that C35 has to tell from MonitorTrackEnded
MonitorTrackEndedHolding(t) ==
  /\ threads[t].pc = "mon_set"
  /\ lock = t
  /\ is_playing' = FALSE
  /\ is_paused' = FALSE
  /\ threads' = Goto(threads, t, "nt_lock")
  /\ UNCHANGED << mpv_process, current_track, track_queue, track_history,
                  current_queue_index, monitor_thread, should_stop_monitoring,
                  lock, procs >>
  /\ Within

\* with self._lock: is_playing and is_paused are reset; next_track() follows
MonitorTrackEnded(t) ==
  /\ threads[t].pc = "mon_set"
  /\ lock = t
  /\ is_playing' = FALSE
  /\ is_paused' = FALSE
  /\ lock' = NoThread
  /\ threads' = Goto(threads, t, "nt_lock")
  /\ UNCHANGED << mpv_process, current_track, track_queue, track_history,
                  current_queue_index, monitor_thread, should_stop_monitoring,
                  procs >>
  /\ Within

\* ------------------------------------------------------------------ next_track, previous_track
\* NextTrackChoice that takes the last queue entry instead of the one after
\* the pointer: a faulty variant that C6 has to tell from NextTrackChoice
NextTrackChoiceLast(queue, index, current) ==
  IF queue = <<>>
    THEN IF current # None
           THEN NewThread("search_and_play", "search", SimilarQuery(current.title), None)
           ELSE None
  ELSE IF index < Len(queue) - 1
    THEN NewThread("_play_track", "sm_check", None, queue[Len(queue)])
  ELSE IF current # None
    THEN NewThread("search_and_play", "search", SimilarQuery(current.title), None)
  ELSE None

\* What next_track starts: the thread it spawns, or None (it returns False).
NextTrackChoice(queue, index, current) ==
  IF queue = <<>>
    THEN IF current # None
           THEN NewThread("search_and_play", "search", SimilarQuery(current.title), None)
           ELSE None
  ELSE IF index < Len(queue) - 1
    THEN NewThread("_play_track", "sm_check", None, queue[index + 2])
  ELSE IF current # None
    THEN NewThread("search_and_play", "search", SimilarQuery(current.title), None)
  ELSE None

\* PreviousTrackChoice that takes history[-1] instead of history[-2]: a faulty
\* variant that C9 has to tell from PreviousTrackChoice
PreviousTrackChoiceNewest(queue, index, history, current) ==
  IF queue # <<>> /\ index > 0
    THEN NewThread("_play_track", "sm_check", None, queue[index])
  ELSE IF Len(history) >= 2
    THEN NewThread("_play_track", "sm_check", None, history[Len(history)])
  ELSE IF current # None
    THEN NewThread("_play_track", "sm_check", None, current)
  ELSE None

\* PreviousTrackChoice without its last branch, the restart of the current
\* track: a faulty variant that C30 has to tell from PreviousTrackChoice
PreviousTrackChoiceNoRestart(queue, index, history, current) ==
  IF queue # <<>> /\ index > 0
    THEN NewThread("_play_track", "sm_check", None, queue[index])
  ELSE IF Len(history) >= 2
    THEN NewThread("_play_track", "sm_check", None, history[Len(history) - 1])
  ELSE None

\* What previous_track starts: the thread it spawns, or None (it returns False).
PreviousTrackChoice(queue, index, history, current) ==
  IF queue # <<>> /\ index > 0
    THEN NewThread("_play_track", "sm_check", None, queue[index])
  ELSE IF Len(history) >= 2
    THEN NewThread("_play_track", "sm_check", None, history[Len(history) - 1])
  ELSE IF current # None
    THEN NewThread("_play_track", "sm_check", None, current)
  ELSE None

\* StartChoice without the monitor's `break`: the monitor goes round its loop
\* again after next_track().  A faulty variant that C7 has to tell from
\* StartChoice.
StartChoiceNoBreak(t, choice) ==
  /\ lock = t
  /\ lock' = NoThread
  /\ IF choice = None
       THEN threads' = Return(threads, t, "False") /\ UNCHANGED child
       ELSE /\ Len(threads) < 1 + MaxThreads
            /\ threads' = Append(IF t = Caller THEN Return(threads, t, "True")
                                               ELSE Goto(threads, t, "mon_loop"),
                                 choice)
            /\ child' = IF t = Caller THEN Len(threads) + 1 ELSE child
  /\ UNCHANGED << mpv_process, player, monitor_thread, should_stop_monitoring,
                  procs, calls, pre, service >>

\* StartChoice that returns True also when there is nothing to start: a
\* faulty variant that C10 has to tell from StartChoice
StartChoiceAlwaysTrue(t, choice) ==
  /\ lock = t
  /\ lock' = NoThread
  /\ IF choice = None
       THEN threads' = Return(threads, t, "True") /\ UNCHANGED child
       ELSE /\ Len(threads) < 1 + MaxThreads
            /\ threads' = Append(Return(threads, t, "True"), choice)
            /\ child' = IF t = Caller THEN Len(threads) + 1 ELSE child
  /\ UNCHANGED << mpv_process, player, monitor_thread, should_stop_monitoring,
                  procs, calls, pre, service >>

\* thread t, holding the lock, starts the chosen thread and returns True, or
\* returns False when there is none; the lock is released
StartChoice(t, choice) ==
  /\ lock = t
  /\ lock' = NoThread
  /\ IF choice = None
       THEN threads' = Return(threads, t, "False") /\ UNCHANGED child
       ELSE /\ Len(threads) < 1 + MaxThreads
            /\ threads' = Append(Return(threads, t, "True"), choice)
            /\ child' = IF t = Caller THEN Len(threads) + 1 ELSE child
  /\ UNCHANGED << mpv_process, player, monitor_thread, should_stop_monitoring,
                  procs, calls, pre, service >>

\* the body of next_track, run by the caller or by the monitor
NextTrack(t) ==
  /\ threads[t].pc = "nt_body"
  /\ StartChoice(t, NextTrackChoice(track_queue, current_queue_index, current_track))

PreviousTrack(t) ==
  /\ threads[t].pc = "pv_body"
  /\ StartChoice(t, PreviousTrackChoice(track_queue, current_queue_index,
                                        track_history, current_track))

\* ------------------------------------------------------------------ pause, resume
\* the guard of pause without its test of is_paused: a faulty variant that
\* C12 has to tell from PauseRefused
PauseRefusedUnlessPlaying == mpv_process = NoProcess \/ ~is_playing

\* the guard of pause: nothing to pause
PauseRefused == mpv_process = NoProcess \/ ~is_playing \/ is_paused
\* the guard of resume without its test of is_paused: a faulty variant that
\* C14 has to tell from ResumeRefused
ResumeRefusedUnlessPlaying == mpv_process = NoProcess \/ ~is_playing

\* the guard of resume: nothing to resume
ResumeRefused == mpv_process = NoProcess \/ ~is_playing \/ ~is_paused

\* the first `if` of pause and of resume, read without the lock
CheckPlaying(T, t) ==
  /\ T[t].pc \in {"pa_check", "re_check"}
  /\ threads' =
       IF T[t].pc = "pa_check"
         THEN (IF PauseRefused THEN Return(T, t, "False") ELSE Goto(T, t, "pa_write"))
         ELSE (IF ResumeRefused THEN Return(T, t, "False") ELSE Goto(T, t, "re_write"))
  /\ UNCHANGED << mpv_process, player, monitor_thread, should_stop_monitoring,
                  lock, procs >>

CallPause == Begin /\ CheckPlaying(Enter("pause", "pa_check", None), Caller)
CallResume == Begin /\ CheckPlaying(Enter("resume", "re_check", None), Caller)

\* PauseResumeWrite whose write to an exited process does not fail: a faulty
\* variant that C13 has to tell from PauseResumeWrite
PauseResumeWriteUnchecked(t) ==
  /\ threads[t].pc \in {"pa_write", "re_write"}
  /\ threads' =
       IF mpv_process = NoProcess THEN Raise(threads, t, "AttributeError")
         ELSE Goto(threads, t, IF threads[t].pc = "pa_write" THEN "pa_lock" ELSE "re_lock")
  /\ UNCHANGED << mpv_process, player, monitor_thread, should_stop_monitoring,
                  lock, procs >>
  /\ Within

\* self.mpv_process.stdin.write(b'p'); flush(): the handle is read again; on
\* None (AttributeError) or an exited process (BrokenPipeError) the handler
\* returns False
PauseResumeWrite(t) ==
  /\ threads[t].pc \in {"pa_write", "re_write"}
  /\ threads' =
       IF mpv_process = NoProcess THEN Raise(threads, t, "AttributeError")
         ELSE IF procs[mpv_process] # "running" THEN Raise(threads, t, "BrokenPipeError")
         ELSE Goto(threads, t, IF threads[t].pc = "pa_write" THEN "pa_lock" ELSE "re_lock")
  /\ UNCHANGED << mpv_process, player, monitor_thread, should_stop_monitoring,
                  lock, procs >>
  /\ Within

\* with self._lock: is_paused is set (pause) or cleared (resume)
PauseResumeSet(t) ==
  /\ threads[t].pc \in {"pa_set", "re_set"}
  /\ lock = t
  /\ is_paused' = (threads[t].pc = "pa_set")
  /\ lock' = NoThread
  /\ threads' = Return(threads, t, "True")
  /\ UNCHANGED << mpv_process, current_track, is_playing, track_queue,
                  track_history, current_queue_index, monitor_thread,
                  should_stop_monitoring, procs >>
  /\ Within

\* ------------------------------------------------------------------ add_to_queue
\* add_to_queue that runs the provider inside `with self._lock`: a faulty
\* variant that C34 has to tell from CallAddToQueue
CallAddToQueueLocked ==
  /\ Len(track_queue) < MaxQueue
  /\ Begin
  /\ lock = NoThread
  /\ \E q \in CallerQueries : \E run \in ProviderRuns(q) :
       LET track == ResolveTrack(run, q)
           T == Enter("add_to_queue", "aq_search", q)
       IN  IF track = None
             THEN threads' = Return(T, Caller, "False") /\ lock' = lock
             ELSE /\ threads' = [T EXCEPT ![Caller].pc = "aq_append",
                                          ![Caller].track = track]
                  /\ lock' = Caller
  /\ UNCHANGED << mpv_process, player, monitor_thread, should_stop_monitoring,
                  procs >>

\* lines 351-388: one run of the provider, off the lock
CallAddToQueue ==
  /\ Len(track_queue) < MaxQueue
  /\ Begin
  /\ \E q \in CallerQueries : \E run \in ProviderRuns(q) :
       LET track == ResolveTrack(run, q)
           T == Enter("add_to_queue", "aq_search", q)
       IN  threads' = IF track = None
                        THEN Return(T, Caller, "False")
                        ELSE [T EXCEPT ![Caller].pc = "aq_lock", ![Caller].track = track]
  /\ UNCHANGED << mpv_process, player, monitor_thread, should_stop_monitoring,
                  lock, procs >>

\* AddToQueueAppend that puts the track at the head of the queue: a faulty
\* variant that C17 has to tell from AddToQueueAppend
AddToQueueFront(t) ==
  /\ threads[t].pc = "aq_append"
  /\ lock = t
  /\ track_queue' = << threads[t].track >> \o track_queue
  /\ lock' = NoThread
  /\ threads' = Return(threads, t, "True")
  /\ UNCHANGED << mpv_process, current_track, is_playing, is_paused,
                  track_history, current_queue_index, monitor_thread,
                  should_stop_monitoring, procs >>
  /\ Within

\* with self._lock: self.track_queue.append(track)
AddToQueueAppend(t) ==
  /\ threads[t].pc = "aq_append"
  /\ lock = t
  /\ track_queue' = Append(track_queue, threads[t].track)
  /\ lock' = NoThread
  /\ threads' = Return(threads, t, "True")
  /\ UNCHANGED << mpv_process, current_track, is_playing, is_paused,
                  track_history, current_queue_index, monitor_thread,
                  should_stop_monitoring, procs >>
  /\ Within

\* ------------------------------------------------------------------ get_status
\* get_status() starts with the lock
CallGetStatus == Begin /\ Acquire(Enter("get_status", "gs_lock", None), Caller)

\* 'queue_position': self.current_queue_index + 1 if self.current_queue_index >= 0 else 0
QueuePosition(index) == IF index >= 0 THEN index + 1 ELSE 0

\* GetStatusFlags that leaves the lock after the first three entries, as if
\* the dictionary were read in two locked blocks: a faulty variant that C19
\* has to tell from GetStatusFlags
GetStatusFlagsReleasing(t) ==
  /\ threads[t].pc = "gs_flags"
  /\ lock = t
  /\ lock' = NoThread
  /\ threads' = [threads EXCEPT ![t].pc = "gs_counts",
                                ![t].status = [is_playing |-> is_playing,
                                               is_paused |-> is_paused,
                                               current_track |-> current_track]]
  /\ UNCHANGED << mpv_process, player, monitor_thread, should_stop_monitoring,
                  procs >>
  /\ Within

\* the first three entries of the dictionary are read
GetStatusFlags(t) ==
  /\ threads[t].pc = "gs_flags"
  /\ lock = t
  /\ threads' = [threads EXCEPT ![t].pc = "gs_counts",
                                ![t].status = [is_playing |-> is_playing,
                                               is_paused |-> is_paused,
                                               current_track |-> current_track]]
  /\ UNCHANGED << mpv_process, player, monitor_thread, should_stop_monitoring,
                  lock, procs >>
  /\ Within

\* the last three entries are read, the dictionary is returned and the `with`
\* block is left
GetStatusCounts(t) ==
  /\ threads[t].pc = "gs_counts"
  /\ lock' = NoThread
  /\ threads' =
       [Return(threads, t, "dict") EXCEPT ![t].status =
          [is_playing |-> threads[t].status.is_playing,
           is_paused |-> threads[t].status.is_paused,
           current_track |-> threads[t].status.current_track,
           queue_length |-> Len(track_queue),
           queue_position |-> QueuePosition(current_queue_index),
           history_length |-> Len(track_history)]]
  /\ UNCHANGED << mpv_process, player, monitor_thread, should_stop_monitoring,
                  procs >>
  /\ Within

\* ------------------------------------------------------------------ the mpv process
\* The process the player holds exits on its own (the track is over, or mpv
\* failed).  A process the player holds no handle to is never looked at again,
\* so its exit is left out.
ProcessExits ==
  /\ mpv_process # NoProcess
  /\ procs[mpv_process] = "running"
  /\ procs' = [procs EXCEPT ![mpv_process] = "ended"]
  /\ UNCHANGED << mpv_process, player, monitor_thread, should_stop_monitoring,
                  lock, threads >>
  /\ Within

\* ------------------------------------------------------------------ MusicService
\* src/services/music_service.py, class MusicService: the second player, which
\* the Qt views use.  `service` holds its fields; an operation of the caller
\* is one step, a background thread (a job) takes a step for each provider
\* call and each locked section, and the slot connected to a process's
\* `finished` signal runs as a step of its own after the step that ended the
\* process.

\* the queries the view passes
ServiceQueries == { <<"q", "A">>, <<"q", "B">> }

\* the track dictionary MusicService builds
ServiceTrack(title, artist, video_id) ==
  [title |-> title, artist |-> artist, video_id |-> video_id,
   url |-> <<"https://www.youtube.com/watch?v=">> \o video_id]

\* the lines yt-dlp prints for a search: title, uploader, id
PrintLines(r) == r.title \o <<"\n">> \o r.uploader \o <<"\n">> \o r.id

\* the line yt-dlp prints for a related entry: '%(id)s|%(title)s|%(uploader)s'
PrintRelated(r) == r.id \o <<"|">> \o r.title \o <<"|">> \o r.uploader

\* str.split('\n')
RECURSIVE SplitLines(_)
SplitLines(s) ==
  IF \A i \in 1..Len(s) : s[i] # "\n"
    THEN <<s>>
    ELSE LET k == CHOOSE i \in 1..Len(s) :
                    s[i] = "\n" /\ \A j \in 1..(i-1) : s[j] # "\n"
         IN  <<SubSeq(s, 1, k-1)>> \o SplitLines(SubSeq(s, k+1, Len(s)))

\* the entry the related (auto-mix) list of a video holds after the video
RelatedRecord(video_id) ==
  CHOOSE r \in ProviderRecords :
    r.id = (CASE video_id = <<"A">> -> <<"C">>
              [] video_id = <<"B">> -> <<"A">>
              [] OTHER -> <<"B">>)

\* what one run of a search can give: a timeout, a non-zero exit, or exit 0
\* with an empty stdout or the lines of the record found
ServiceSearchRuns(query) ==
  LET found == IF query \in CallerQueries
                 THEN CHOOSE r \in ProviderRecords : query = <<"q">> \o r.id
                 ELSE SimilarRecord(query)
  IN  { [timeout |-> TRUE, returncode |-> 0, stdout |-> <<>>],
        [timeout |-> FALSE, returncode |-> 1, stdout |-> <<>>],
        [timeout |-> FALSE, returncode |-> 0, stdout |-> <<>>],
        [timeout |-> FALSE, returncode |-> 0, stdout |-> PrintLines(found)] }

\* what one run of the related lookup can give: the same failures, a line with
\* fewer than three fields, or the line of the related entry
RelatedRuns(video_id) ==
  { [timeout |-> TRUE, returncode |-> 0, stdout |-> <<>>],
    [timeout |-> FALSE, returncode |-> 1, stdout |-> <<>>],
    [timeout |-> FALSE, returncode |-> 0, stdout |-> <<>>],
    [timeout |-> FALSE, returncode |-> 0, stdout |-> <<"A", "|", "tA">>],
    [timeout |-> FALSE, returncode |-> 0, stdout |-> PrintRelated(RelatedRecord(video_id))] }

\* the result of a search: None for a timeout, a non-zero exit or fewer than
\* two lines, else the track of the first and the last line
SearchResult(run) ==
  IF run.timeout \/ run.returncode # 0 THEN None
  ELSE LET lines == SplitLines(run.stdout)
       IN  IF Len(lines) >= 2
             THEN ServiceTrack(lines[1],
                               IF Len(lines) > 2 THEN lines[2] ELSE <<"Unknown">>,
                               lines[Len(lines)])
             ELSE None

\* the result of the first tier of _get_recommended_track: None (go on to
\* _search_similar_track) for a timeout, a non-zero exit or fewer than three
\* fields, else the related track
RelatedResult(run) ==
  IF run.timeout \/ run.returncode # 0 THEN None
  ELSE LET parts == Split(SplitLines(run.stdout)[1])
       IN  IF Len(parts) >= 3 THEN ServiceTrack(parts[2], parts[3], parts[1]) ELSE None

\* a background thread of the service: the operation it runs, where it is,
\* its query, the video id it read, the related lookup's run, the query of its
\* similar search, and the track it found
NewJob(op, pc, query) ==
  [op |-> op, pc |-> pc, query |-> query, video_id |-> None, related |-> None,
   similar |-> None, track |-> None]

\* the service after __init__
ServiceFresh ==
  [mpv_process |-> NoProcess, current_track |-> None, track_queue |-> <<>>,
   current_queue_index |-> -1, running |-> FALSE,
   music_playing |-> FALSE, music_paused |-> FALSE,
   procs |-> <<>>, signals |-> {}, jobs |-> <<>>, calls |-> 0]

\* `self.mpv_process and self.mpv_process.state() == QProcess.Running`
HeldRunning(s) == s.mpv_process # NoProcess /\ s.procs[s.mpv_process] = "running"

\* _stop_playback: a running process is killed (its `finished` signal is
\* emitted) and the handle cleared; app_state is set to not playing, not paused
ServiceStopPlayback(s) ==
  IF HeldRunning(s)
    THEN [s EXCEPT !.procs = [@ EXCEPT ![s.mpv_process] = "killed"],
                   !.signals = @ \cup { s.mpv_process },
                   !.mpv_process = NoProcess,
                   !.music_playing = FALSE,
                   !.music_paused = FALSE]
    ELSE [s EXCEPT !.music_playing = FALSE, !.music_paused = FALSE]

\* _play_track: _stop_playback, then the track is made current and a new
\* process is started for it
ServicePlayTrack(s, track) ==
  LET u == ServiceStopPlayback(s)
  IN  [u EXCEPT !.current_track = track,
                !.procs = Append(@, "running"),
                !.mpv_process = Len(u.procs) + 1,
                !.music_playing = TRUE,
                !.music_paused = FALSE]

\* the index next() moves to from index, in a queue of n entries
ServiceNextIndex(index, n) == (index + 1) % n

\* the index previous() moves to
ServicePreviousIndex(index, n) == (index - 1) % n

\* next(): nothing for an empty queue, else the index moves and the entry is played
ServiceNext(s) ==
  IF s.track_queue = <<>> THEN s
  ELSE LET i == ServiceNextIndex(s.current_queue_index, Len(s.track_queue))
       IN  ServicePlayTrack([s EXCEPT !.current_queue_index = i], s.track_queue[i + 1])

\* previous()
ServicePrevious(s) ==
  IF s.track_queue = <<>> THEN s
  ELSE LET i == ServicePreviousIndex(s.current_queue_index, Len(s.track_queue))
       IN  ServicePlayTrack([s EXCEPT !.current_queue_index = i], s.track_queue[i + 1])

\* the caller makes a call of the service: the new service is s
ServiceCall(s) ==
  /\ service.calls < MaxServiceCalls
  /\ Len(s.procs) <= MaxServiceProcs
  /\ service' = [s EXCEPT !.calls = @ + 1]
  /\ UNCHANGED backend

\* a step of the service that is not a call
ServiceStep(s) ==
  /\ Len(s.procs) <= MaxServiceProcs
  /\ service' = s
  /\ UNCHANGED backend

\* QThread.start(): run() sets _running
ServiceStart ==
  /\ ~service.running
  /\ ServiceCall([service EXCEPT !.running = TRUE])

\* search_and_play(query): the search thread is started
ServiceSearchAndPlay ==
  \E q \in ServiceQueries :
    /\ Len(service.jobs) < MaxJobs
    /\ ServiceCall([service EXCEPT !.jobs = Append(@, NewJob("search_and_play", "search", q))])

\* pause(): a running process is stopped and app_state set to paused
ServicePause ==
  ServiceCall(IF HeldRunning(service)
                THEN [ServiceStopPlayback(service) EXCEPT !.music_paused = TRUE]
                ELSE service)

\* resume(): the current track is played again from its start
ServiceResume ==
  ServiceCall(IF service.current_track # None
                THEN ServicePlayTrack(service, service.current_track)
                ELSE service)

ServiceCallNext == ServiceCall(ServiceNext(service))

ServiceCallPrevious == ServiceCall(ServicePrevious(service))

\* thread j of the service goes to pc
JobGoto(s, j, pc) == [s EXCEPT !.jobs[j].pc = pc]

\* _search_thread: the provider call; the track found is played; it is
\* appended to the queue and the index set to it
SearchThread(j) ==
  LET job == service.jobs[j]
  IN  \/ /\ job.pc = "search"
         /\ \E run \in ServiceSearchRuns(job.query) :
              ServiceStep(IF SearchResult(run) = None
                            THEN JobGoto(service, j, "done")
                            ELSE [JobGoto(service, j, "play")
                                    EXCEPT !.jobs[j].track = SearchResult(run)])
      \/ /\ job.pc = "play"
         /\ ServiceStep(ServicePlayTrack(JobGoto(service, j, "enqueue"), job.track))
      \/ /\ job.pc \in { "enqueue", "ap_enqueue" }
         /\ Len(service.track_queue) < MaxQueue
         /\ ServiceStep([JobGoto(service, j, IF job.pc = "enqueue" THEN "done" ELSE "ap_play")
                           EXCEPT !.track_queue = Append(@, job.track),
                                  !.current_queue_index = Len(service.track_queue)])

\* a running process ends on its own: its `finished` signal is emitted
ServiceProcessEnds ==
  /\ HeldRunning(service)
  /\ ServiceStep([service EXCEPT !.procs[service.mpv_process] = "ended",
                                 !.signals = @ \cup { service.mpv_process }])

\* _on_playback_finished, the slot of process p's `finished` signal: when the
\* service runs, next() if the queue has an entry after the index, else
\* _autoplay_recommended(), which starts a thread
OnPlaybackFinished(p) ==
  LET s == [service EXCEPT !.signals = @ \ {p}]
      has_next_in_queue ==
        s.track_queue # <<>> /\ s.current_queue_index < Len(s.track_queue) - 1
  IN  /\ p \in service.signals
      /\ IF ~s.running THEN ServiceStep(s)
         ELSE IF has_next_in_queue THEN ServiceStep(ServiceNext(s))
         ELSE /\ Len(s.jobs) < MaxJobs
              /\ ServiceStep([s EXCEPT !.jobs = Append(@, NewJob("_autoplay_recommended", "ap_id", None))])

\* _fetch_and_play: the current track's video id is read; _get_recommended_track
\* runs the related lookup and, when that gives nothing, _search_similar_track,
\* which searches for the title of self.current_track; the track found is
\* appended to the queue and played
FetchAndPlay(j) ==
  LET job == service.jobs[j]
  IN  \/ /\ job.pc = "ap_id"
         /\ ServiceStep(IF service.current_track = None
                          THEN JobGoto(service, j, "done")
                          ELSE [JobGoto(service, j, "ap_related")
                                  EXCEPT !.jobs[j].video_id = service.current_track.video_id])
      \/ /\ job.pc = "ap_related"
         /\ \E run \in RelatedRuns(job.video_id) :
              ServiceStep([JobGoto(service, j, IF RelatedResult(run) = None
                                                 THEN "ap_similar" ELSE "ap_enqueue")
                             EXCEPT !.jobs[j].related = run,
                                    !.jobs[j].track = RelatedResult(run)])
      \/ /\ job.pc = "ap_similar"
         /\ IF service.current_track = None
              THEN ServiceStep(JobGoto(service, j, "done"))
              ELSE LET search_query == SimilarQuery(service.current_track.title)
                   IN  \E run \in ServiceSearchRuns(search_query) :
                         ServiceStep([JobGoto(service, j, IF SearchResult(run) = None
                                                            THEN "done" ELSE "ap_enqueue")
                                        EXCEPT !.jobs[j].similar = search_query,
                                               !.jobs[j].track = SearchResult(run)])
      \/ /\ job.pc = "ap_play"
         /\ ServiceStep(ServicePlayTrack(JobGoto(service, j, "done"), job.track))

\* the steps of the service
NextService ==
  \/ ServiceStart
  \/ ServiceSearchAndPlay
  \/ ServicePause
  \/ ServiceResume
  \/ ServiceCallNext
  \/ ServiceCallPrevious
  \/ \E j \in 1..Len(service.jobs) : SearchThread(j)
  \/ \E j \in 1..Len(service.jobs) : FetchAndPlay(j)
  \/ \E p \in 1..Len(service.procs) : OnPlaybackFinished(p)
  \/ ServiceProcessEnds

\* ------------------------------------------------------------------ specification
\* the player after __init__
Fresh ==
  /\ mpv_process = NoProcess
  /\ current_track = None
  /\ is_playing = FALSE
  /\ is_paused = FALSE
  /\ track_queue = <<>>
  /\ track_history = <<>>
  /\ current_queue_index = -1
  /\ monitor_thread = NoThread
  /\ should_stop_monitoring = FALSE
  /\ lock = NoThread
  /\ procs = <<>>
  /\ threads = << NewThread("none", "idle", None, None) >>

\* the queues the behaviours start from
StartQueues ==
  { <<>>, <<TrackA, TrackB>>, <<TrackA, TrackB, TrackC>>, <<TrackB, TrackB, TrackC>> }

\* the positions current_queue_index can have for a queue: -1, or a position
\* that list.index can return
StartIndexes(queue) ==
  { -1 } \cup { i \in 0..(Len(queue) - 1) : IndexOf(queue, queue[i + 1]) = i }

\* a track that was played by search_and_play for a query no queue entry has
AdHocTrack == [TrackA EXCEPT !.query = SimilarQuery(TrackC.title)]

\* the histories that end with track
StartHistories(track) ==
  { <<track>> } \cup
  { <<other, track>> : other \in { x \in {TrackA, TrackB} : x.id # track.id } }

\* A track is playing (or paused), started by _play_track: its process runs,
\* its monitor thread sleeps, no other thread is at work.
Playing ==
  /\ track_queue \in StartQueues
  /\ current_queue_index \in StartIndexes(track_queue)
  /\ current_track = IF current_queue_index = -1
                       THEN AdHocTrack
                       ELSE track_queue[current_queue_index + 1]
  /\ track_history \in StartHistories(current_track)
  /\ is_playing = TRUE
  /\ is_paused \in BOOLEAN
  /\ mpv_process = 1
  /\ procs = << "running" >>
  /\ monitor_thread = 2
  /\ should_stop_monitoring = FALSE
  /\ lock = NoThread
  /\ threads = << NewThread("none", "idle", None, None),
                  NewThread("_monitor_playback", "mon_loop", None, current_track) >>

\* stop() has returned: the state is cleared, the history is kept, the process
\* was terminated and the monitor thread has finished
Stopped ==
  /\ track_queue = <<>>
  /\ current_queue_index = -1
  /\ current_track = None
  /\ track_history \in StartHistories(TrackB)
  /\ is_playing = FALSE
  /\ is_paused = FALSE
  /\ mpv_process = NoProcess
  /\ procs = << "killed" >>
  /\ monitor_thread = 2
  /\ should_stop_monitoring = TRUE
  /\ lock = NoThread
  /\ threads = << NewThread("none", "idle", None, None),
                  [NewThread("_monitor_playback", "done", None, None)
                     EXCEPT !.ret = "None"] >>

\* tracks were added to the queue of a fresh player; nothing has been played
Queued ==
  /\ track_queue \in StartQueues \ { <<>> }
  /\ current_queue_index = -1
  /\ current_track = None
  /\ track_history = <<>>
  /\ is_playing = FALSE
  /\ is_paused = FALSE
  /\ mpv_process = NoProcess
  /\ procs = <<>>
  /\ monitor_thread = NoThread
  /\ should_stop_monitoring = FALSE
  /\ lock = NoThread
  /\ threads = << NewThread("none", "idle", None, None) >>

\* the player after construction, with every call still to come
Init ==
  /\ Fresh
  /\ calls = 0
  /\ pre = None
  /\ child = NoThread
  /\ service = ServiceFresh

Next ==
  \/ CallSearchAndPlay
  \/ CallStop
  \/ CallNextTrack
  \/ CallPreviousTrack
  \/ CallPause
  \/ CallResume
  \/ CallAddToQueue
  \/ CallGetStatus
  \/ \E t \in Tids : GetStatusFlags(t)
  \/ \E t \in Tids : GetStatusCounts(t)
  \/ \E t \in Tids : AcquireLock(t)
  \/ \E t \in Tids : SearchAndPlay(t)
  \/ \E t \in Tids : StopMpvCheck(t)
  \/ \E t \in Tids : StopMpvTerminate(t)
  \/ \E t \in Tids : StopMpvKill(t)
  \/ \E t \in Tids : StopMpvFinally(t)
  \/ \E t \in Tids : Popen(t)
  \/ \E t \in Tids : PlayTrackUpdate(t)
  \/ \E t \in Tids : StopMonitoring(t)
  \/ \E t \in Tids : JoinMonitorFinished(t)
  \/ \E t \in Tids : JoinMonitorTimeout(t)
  \/ \E t \in Tids : StartMonitor(t)
  \/ \E t \in Tids : StopUpdate(t)
  \/ \E t \in Tids : MonitorLoop(t)
  \/ \E t \in Tids : MonitorCheck(t)
  \/ \E t \in Tids : MonitorPoll(t)
  \/ \E t \in Tids : MonitorTrackEnded(t)
  \/ \E t \in Tids : NextTrack(t)
  \/ \E t \in Tids : PreviousTrack(t)
  \/ \E t \in Tids : PauseResumeWrite(t)
  \/ \E t \in Tids : PauseResumeSet(t)
  \/ \E t \in Tids : AddToQueueAppend(t)
  \/ ProcessExits

\* every behaviour of the player from its construction, MaxCalls calls long
Spec == Init /\ [][Next]_vars

\* the states one more call is made from: a choice among the playing states,
\* the stopped states and the states with a queue and nothing played
StartPoints ==
  { << <<>>, -1, 1, FALSE >>,
    << <<>>, -1, 2, FALSE >>,
    << <<>>, -1, 1, TRUE >>,
    << <<TrackA, TrackB>>, 0, 1, FALSE >>,
    << <<TrackA, TrackB>>, 1, 2, TRUE >>,
    << <<TrackA, TrackB, TrackC>>, 1, 1, FALSE >>,
    << <<TrackA, TrackB, TrackC>>, 1, 2, FALSE >>,
    << <<TrackB, TrackB, TrackC>>, 0, 1, FALSE >>,
    << <<TrackB, TrackB, TrackC>>, 2, 1, FALSE >> }

InitStarted ==
  /\ pre = None
  /\ child = NoThread
  /\ service = ServiceFresh
  /\ calls = MaxCalls - 1
  /\ \/ /\ Playing
        /\ << track_queue, current_queue_index, Len(track_history), is_paused >>
             \in StartPoints
     \/ Stopped
     \/ Queued

\* one call made in a state that earlier calls have led to
SpecStarted == InitStarted /\ [][Next]_vars

\* ------------------------------------------------------------------ threads that keep running
\* the steps of thread t inside its operation (the start of a call is the
\* caller's choice and the exit of a process is mpv's)
ThreadStep(t) ==
  \/ GetStatusFlags(t)
  \/ GetStatusCounts(t)
  \/ AcquireLock(t)
  \/ SearchAndPlay(t)
  \/ StopMpvCheck(t)
  \/ StopMpvTerminate(t)
  \/ StopMpvKill(t)
  \/ StopMpvFinally(t)
  \/ Popen(t)
  \/ PlayTrackUpdate(t)
  \/ StopMonitoring(t)
  \/ JoinMonitorFinished(t)
  \/ JoinMonitorTimeout(t)
  \/ StartMonitor(t)
  \/ StopUpdate(t)
  \/ MonitorLoop(t)
  \/ MonitorCheck(t)
  \/ MonitorPoll(t)
  \/ MonitorTrackEnded(t)
  \/ NextTrack(t)
  \/ PreviousTrack(t)
  \/ PauseResumeWrite(t)
  \/ PauseResumeSet(t)
  \/ AddToQueueAppend(t)

\* the scheduler runs every thread that can take a step
ThreadFairness == \A t \in 1..(1 + MaxThreads) : WF_vars(t \in Tids /\ ThreadStep(t))

\* every behaviour of the player from its construction, MaxCalls calls long,
\* in which every thread is scheduled
SpecLive == Init /\ [][Next]_vars /\ ThreadFairness

\* ------------------------------------------------------------------ titles with the separator
\* what the provider can find when titles and uploaders are any strings: the
\* record's id is its query's, the title or the uploader may hold a '|'
TitledRecords ==
  { [id |-> id, title |-> title, uploader |-> uploader, duration |-> <<"1">>] :
      id \in { <<"A">>, <<"B">> },
      title \in { <<"t">>, <<"t", "|", "x">>, <<"|", "t">> },
      uploader \in { <<"u">>, <<"u", "|", "v">> } }

\* add_to_queue(query), lines 351-388, with such a provider: the run is off
\* the lock; its stdout is empty, short of a field, or the line of a record
\* (the thread's status field keeps the stdout that was parsed)
CallAddToQueueTitled ==
  /\ Len(track_queue) < MaxQueue
  /\ Begin
  /\ \E q \in CallerQueries :
     \E stdout \in { <<>>, <<"A", "|", "t", "|", "u">> }
                     \cup { PrintRecord(r) : r \in { x \in TitledRecords : q = <<"q">> \o x.id } } :
       LET track == ResolveTrack([timeout |-> FALSE, returncode |-> 0, stdout |-> stdout], q)
           T == [threads EXCEPT ![Caller] =
                   [NewThread("add_to_queue", "aq_search", q, None) EXCEPT !.status = stdout]]
       IN  threads' = IF track = None
                        THEN Return(T, Caller, "False")
                        ELSE [T EXCEPT ![Caller].pc = "aq_lock", ![Caller].track = track]
  /\ UNCHANGED << mpv_process, player, monitor_thread, should_stop_monitoring,
                  lock, procs >>

NextResolve ==
  \/ CallAddToQueueTitled
  \/ \E t \in Tids : AcquireLock(t)
  \/ \E t \in Tids : AddToQueueAppend(t)

\* add_to_queue from the player's construction, MaxCalls calls long, the
\* provider finding records whose titles and uploaders may hold a '|'
SpecResolve == Init /\ [][NextResolve]_vars

\* ------------------------------------------------------------------ playback left to itself
\* a track is playing and the caller makes no call
InitAuto ==
  /\ pre = None
  /\ child = NoThread
  /\ service = ServiceFresh
  /\ calls = MaxCalls
  /\ Playing

\* the steps of thread t when no call is made
AutoStep(t) ==
  \/ AcquireLock(t)
  \/ SearchAndPlay(t)
  \/ StopMpvCheck(t)
  \/ StopMpvTerminate(t)
  \/ StopMpvFinally(t)
  \/ Popen(t)
  \/ PlayTrackUpdate(t)
  \/ StopMonitoring(t)
  \/ StartMonitor(t)
  \/ MonitorLoop(t)
  \/ MonitorCheck(t)
  \/ MonitorPoll(t)
  \/ MonitorTrackEnded(t)
  \/ NextTrack(t)

NextAuto ==
  \/ \E t \in Tids : AcquireLock(t)
  \/ \E t \in Tids : SearchAndPlay(t)
  \/ \E t \in Tids : StopMpvCheck(t)
  \/ \E t \in Tids : StopMpvTerminate(t)
  \/ \E t \in Tids : StopMpvFinally(t)
  \/ \E t \in Tids : Popen(t)
  \/ \E t \in Tids : PlayTrackUpdate(t)
  \/ \E t \in Tids : StopMonitoring(t)
  \/ \E t \in Tids : StartMonitor(t)
  \/ \E t \in Tids : MonitorLoop(t)
  \/ \E t \in Tids : MonitorCheck(t)
  \/ \E t \in Tids : MonitorPoll(t)
  \/ \E t \in Tids : MonitorTrackEnded(t)
  \/ \E t \in Tids : NextTrack(t)
  \/ ProcessExits

\* every thread that can take a step eventually takes one
AutoFairness == \A t \in 1..(1 + MaxThreads) : WF_vars(t \in Tids /\ AutoStep(t))

SpecAuto == InitAuto /\ [][NextAuto]_vars /\ AutoFairness

\* ------------------------------------------------------------------ exit codes
\* The process the player holds exits on its own with an exit code that is
\* not 0 (mpv failed): poll() returns that code
ProcessFails ==
  /\ mpv_process # NoProcess
  /\ procs[mpv_process] = "running"
  /\ procs' = [procs EXCEPT ![mpv_process] = "failed"]
  /\ UNCHANGED << mpv_process, player, monitor_thread, should_stop_monitoring,
                  lock, threads >>
  /\ Within

\* a running process of the service ends with an exit code that is not 0:
\* its `finished` signal is emitted with that code
ServiceProcessFails ==
  /\ HeldRunning(service)
  /\ ServiceStep([service EXCEPT !.procs[service.mpv_process] = "failed",
                                 !.signals = @ \cup { service.mpv_process }])

\* a track plays in the YouTubeMusicPlayer and the caller makes no call, or
\* both players are as constructed and the MusicService is used
InitExit == InitAuto \/ Init

\* the two players are separate objects: the service is used while the
\* YouTubeMusicPlayer has started no process
NextExit ==
  \/ NextAuto
  \/ ProcessFails
  \/ procs = <<>> /\ NextService
  \/ procs = <<>> /\ ServiceProcessFails

\* playback left to itself in either player, a process ending with any exit
\* code
SpecExit == InitExit /\ [][NextExit]_vars

\* ------------------------------------------------------------------ pause and resume during playback
\* a track is playing or paused and the caller has two calls of pause() or
\* resume() to make
InitPaused ==
  /\ pre = None
  /\ child = NoThread
  /\ service = ServiceFresh
  /\ calls = MaxCalls - 2
  /\ Playing
  /\ << track_queue, current_queue_index, Len(track_history), is_paused >> \in StartPoints

NextPaused ==
  \/ CallPause
  \/ CallResume
  \/ \E t \in Tids : PauseResumeWrite(t)
  \/ \E t \in Tids : PauseResumeSet(t)
  \/ NextAuto

\* pause() and resume() interleaved with the monitor and the threads it starts
SpecPaused == InitPaused /\ [][NextPaused]_vars

\* ------------------------------------------------------------------ the service on its own
\* every behaviour of the MusicService from its construction, MaxServiceCalls
\* calls long; the YouTubeMusicPlayer is left as constructed
SpecService == Init /\ [][NextService]_vars

\* ------------------------------------------------------------------ claims
\* the caller's last call was op and has returned
CallerDid(op) ==
  /\ pre # None
  /\ threads[Caller].op = op
  /\ threads[Caller].pc = "idle"

\* thread t has finished what it was started for
Finished(t) == t # NoThread /\ ~IsAlive(t)

\* every monitor has ended within the two seconds of the join that waited for it
OnTime == \A t \in Tids : ~threads[t].late

\* C1: at most one spawned audio process is live at any instant, and every
\* live process is the one the handle points to (stated for the behaviours in
\* which no join of a monitor times out).
C1_OneLiveProcess ==
  OnTime => ( /\ Cardinality(LiveProcs) <= 1
              /\ \A p \in LiveProcs : mpv_process = p )

\* C2: stop() issued when the current track's process has ended on its own
\* and the monitor has not reported it yet: once stop() has returned and the
\* threads have run to completion the player is stopped, never playing
\* (stated for the behaviours in which no join of a monitor times out).
C2_StopWinsRace ==
  ( /\ OnTime
    /\ CallerDid("stop")
    /\ threads[Caller].ret = "True"
    /\ pre.proc = "ended"
    /\ pre.quiet
    /\ Quiet )
  => ( /\ ~is_playing
       /\ current_track = None
       /\ LiveProcs = {} )

\* the caller's call of op returns with this step
Returns(op) ==
  /\ threads'[Caller].op = op
  /\ threads'[Caller].pc = "idle"
  /\ threads[Caller].pc # "idle" \/ calls' # calls

\* the record the provider finds for a caller's query
RecordFor(query) == CHOOSE r \in ProviderRecords : query = <<"q">> \o r.id

\* the player is STOPPED: nothing plays and no thread of an earlier call is
\* alive
StoppedAlone(snapshot) == ~snapshot.is_playing /\ snapshot.alone

\* the caller's search_and_play has returned True and the player is PLAYING the
\* track of the provider's record: same id, same title
PlaysResolved ==
  /\ threads[Caller].ret = "True"
  /\ is_playing
  /\ ~is_paused
  /\ current_track # None
  /\ current_track.id = RecordFor(threads[Caller].query).id
  /\ current_track.title = RecordFor(threads[Caller].query).title

\* C3 as stated: for any query the provider resolves, search_and_play(query)
\* called in STOPPED returns True and the player is PLAYING the resolved track:
\* is_playing, not is_paused, current_track with the record's id and title.
C3_SearchAndPlayStarts ==
  [][ ( /\ Returns("search_and_play")
        /\ StoppedAlone(pre')
        /\ threads'[Caller].track # None )
      => PlaysResolved' ]_vars

\* C3, amended: the same, for the calls in which Popen does not raise, that
\* is, mpv could be spawned.
C3_SearchAndPlayStartsWhenSpawned ==
  [][ ( /\ Returns("search_and_play")
        /\ StoppedAlone(pre')
        /\ threads'[Caller].track # None
        /\ threads'[Caller].exc # "OSError" )
      => PlaysResolved' ]_vars

\* C3's case: a search_and_play called in STOPPED has returned True
C3_Witness ==
  /\ CallerDid("search_and_play")
  /\ StoppedAlone(pre)
  /\ threads[Caller].ret = "True"
  /\ is_playing
  /\ current_track = threads[Caller].track

\* the player's fields are those of the snapshot
SameFields(snapshot) ==
  /\ current_track = snapshot.current_track
  /\ is_playing = snapshot.is_playing
  /\ is_paused = snapshot.is_paused
  /\ track_queue = snapshot.track_queue
  /\ track_history = snapshot.track_history
  /\ current_queue_index = snapshot.current_queue_index

\* the process the player holds is running
HeldProcessRuns == mpv_process # NoProcess /\ procs[mpv_process] = "running"

\* no process has ended on its own
NoNaturalEnd == \A p \in 1..Len(procs) : procs[p] # "ended"

\* C4: a search_and_play that returns False leaves the player as it was at
\* the call: the fields are unchanged and a track that was playing is still
\* playing (stated for calls made while no other thread is at work and no
\* process ends on its own).
C4_FailedSearchChangesNothing ==
  [][ ( /\ Returns("search_and_play")
        /\ threads'[Caller].ret = "False"
        /\ pre'.quiet
        /\ OnTime'
        /\ NoNaturalEnd' )
      => ( /\ SameFields(pre)'
           /\ (pre'.is_playing /\ pre'.proc = "running" => HeldProcessRuns') ) ]_vars

\* next_track's fallback has failed: no search was started, or the search
\* it started has returned False
FallbackFailed ==
  \/ child = NoThread
  \/ /\ Finished(child)
     /\ threads[child].op = "search_and_play"
     /\ threads[child].ret = "False"

\* C5: next_track() called while PLAYING or PAUSED with no queue entry after
\* the pointer, every fallback failing, returns False and leaves the player
\* stopped.
C5_NextFailureReported ==
  ( /\ CallerDid("next_track")
    /\ pre.is_playing
    /\ pre.quiet
    /\ pre.current_queue_index >= Len(pre.track_queue) - 1
    /\ FallbackFailed
    /\ Quiet
    /\ OnTime
    /\ NoNaturalEnd )
  => ( /\ threads[Caller].ret = "False"
       /\ ~is_playing )

\* the process p that the player holds has exited on its own, its monitor
\* watches, nothing else is under way, and x is the queue entry after the
\* pointer (a thread and a process can still be started)
EndedWithNext(x, p) ==
  /\ mpv_process = p
  /\ procs[p] = "ended"
  /\ Quiet
  /\ ~should_stop_monitoring
  /\ monitor_thread # NoThread
  /\ IsAlive(monitor_thread)
  /\ current_queue_index < Len(track_queue) - 1
  /\ track_queue[current_queue_index + 2] = x
  /\ Len(threads) < 1 + MaxThreads
  /\ Len(procs) < MaxProcs

\* x is playing in a process other than p
PlayingAfter(x, p) ==
  /\ is_playing
  /\ current_track = x
  /\ mpv_process # NoProcess
  /\ mpv_process # p

\* Popen has raised in a spawned thread
SpawnFailed == \E t \in Workers : threads[t].exc = "OSError"

\* C6 as stated: when the current track's process exits on its own while the
\* queue has an entry after queue_index and the caller makes no call, the
\* player eventually plays that entry.
C6_AutoAdvance ==
  \A x \in { TrackA, TrackB, TrackC } : \A p \in 1..MaxProcs :
    [](EndedWithNext(x, p) => <>PlayingAfter(x, p))

\* C6, amended: the player eventually plays that entry unless mpv cannot be
\* spawned for it.
C6_AutoAdvanceWhenSpawned ==
  \A x \in { TrackA, TrackB, TrackC } : \A p \in 1..MaxProcs :
    [](EndedWithNext(x, p) => <>(PlayingAfter(x, p) \/ SpawnFailed))

\* C6's case: the first process has ended, the monitor has started the next
\* queue entry and it plays
C6_Witness ==
  /\ calls = MaxCalls
  /\ pre = None
  /\ procs[1] = "ended"
  /\ \E w \in Workers :
       /\ threads[w].op = "_play_track"
       /\ Finished(w)
       /\ threads[w].ret = "True"
       /\ PlayingAfter(threads[w].track, 1)

\* the search the monitor's next_track started has found nothing
FallbackSearchFailed(w) ==
  /\ threads[w].op = "search_and_play"
  /\ Finished(w)
  /\ threads[w].track = None

\* C7: after a natural end of track with no next queue entry and no
\* recommendation obtainable the player is STOPPED (nothing playing, no live
\* process) and stays so: the failed search is the last thread started, no
\* thread is alive to retry, and no process was spawned after the one that
\* ended.
C7_NoRetry ==
  \A w \in Workers :
    FallbackSearchFailed(w)
    => ( /\ ~is_playing
         /\ ~is_paused
         /\ LiveProcs = {}
         /\ \A p \in 1..Len(procs) : procs[p] = "ended"
         /\ Len(threads) = w
         /\ \A t \in Tids \ {Caller} : ~IsAlive(t) )

\* C7's case: the track ended with nothing after it in the queue and the
\* fallback search has failed
C7_Witness ==
  /\ calls = MaxCalls
  /\ pre = None
  /\ current_queue_index >= Len(track_queue) - 1
  /\ \E w \in Workers : FallbackSearchFailed(w) /\ threads[w].ret = "False"
  /\ ~is_playing

\* the thread the caller's call started has played its track, and no other
\* thread was started but the monitor of that track
ChildPlayed ==
  /\ Finished(child)
  /\ threads[child].ret = "True"
  /\ Len(threads) = child + 1

\* C8: previous_track() called with queue_index > 0 selects
\* queue[queue_index-1]; once playback has started that entry is the current
\* track and queue_index is one less than at the call.
C8_PreviousQueueNeighbour ==
  ( /\ CallerDid("previous_track")
    /\ pre.current_queue_index > 0
    /\ pre.quiet
    /\ OnTime
    /\ ChildPlayed )
  => ( /\ threads[child].track = pre.track_queue[pre.current_queue_index]
       /\ current_track = pre.track_queue[pre.current_queue_index]
       /\ current_queue_index = pre.current_queue_index - 1 )

\* C9: previous_track() called with an empty queue and at least two history
\* entries returns True and selects history[-2]: the thread it starts plays
\* that entry.  The last entry is the current track's, so history[-2] is the
\* track played before the current one.
C9_PreviousFromHistory ==
  ( /\ CallerDid("previous_track")
    /\ pre.track_queue = <<>>
    /\ Len(pre.track_history) >= 2 )
  => ( /\ threads[Caller].ret = "True"
       /\ child # NoThread
       /\ threads[child].op = "_play_track"
       /\ threads[child].track = pre.track_history[Len(pre.track_history) - 1]
       /\ ( pre.current_track # None =>
              pre.track_history[Len(pre.track_history)].id = pre.current_track.id ) )

\* C9's case: history [X, Y] with Y current, and X plays after previous_track()
C9_Witness ==
  /\ CallerDid("previous_track")
  /\ pre.track_queue = <<>>
  /\ Len(pre.track_history) = 2
  /\ pre.current_track = pre.track_history[2]
  /\ ChildPlayed
  /\ is_playing
  /\ current_track = pre.track_history[1]

\* nothing has been queued or played and there is no current track
NothingToPlay(snapshot) ==
  /\ snapshot.track_queue = <<>>
  /\ snapshot.track_history = <<>>
  /\ snapshot.current_track = None

\* C10: previous_track() with an empty queue, an empty history and no current
\* track returns False; the call starts no thread and no process and leaves
\* every field as it was at the call, the player STOPPED.
C10_PreviousNothing ==
  [][ ( /\ Returns("previous_track")
        /\ NothingToPlay(pre') )
      => ( /\ threads'[Caller].ret = "False"
           /\ child' = NoThread
           /\ Len(threads') = Len(threads)
           /\ procs' = procs
           /\ mpv_process' = mpv_process
           /\ SameFields(pre)'
           /\ ~is_playing'
           /\ ~is_paused' ) ]_vars

\* C10's case: such a call has returned
C10_Witness ==
  /\ CallerDid("previous_track")
  /\ NothingToPlay(pre)
  /\ threads[Caller].ret = "False"

\* ------------------------------------------------------------------ stop
\* the player after stop(): no current track, nothing playing or paused, an
\* empty queue, the pointer at -1, no process handle
Cleared ==
  /\ current_track = None
  /\ ~is_playing
  /\ ~is_paused
  /\ track_queue = <<>>
  /\ current_queue_index = -1
  /\ mpv_process = NoProcess

\* C11: stop() called in PLAYING or PAUSED returns with the player STOPPED:
\* current_track none, is_playing and is_paused false, the queue empty,
\* queue_index -1, no process handle; the history is as it was at the call
\* (stated for calls made while no thread but the track's monitor is alive,
\* no join times out and the process does not exit on its own during the call).
C11_StopClears ==
  [][ ( /\ Returns("stop")
        /\ pre'.is_playing
        /\ pre'.settled
        /\ OnTime'
        /\ NoNaturalEnd' )
      => ( /\ threads'[Caller].ret = "True"
           /\ Cleared'
           /\ LiveProcs' = {}
           /\ track_history' = pre'.track_history ) ]_vars

\* C11's case: stop() has returned from a paused track with a queue and a
\* history
C11_Witness ==
  /\ CallerDid("stop")
  /\ pre.is_playing
  /\ pre.is_paused
  /\ pre.settled
  /\ pre.track_queue # <<>>
  /\ OnTime
  /\ NoNaturalEnd
  /\ Cleared
  /\ track_history = pre.track_history
  /\ track_history # <<>>

\* ------------------------------------------------------------------ pause, resume
\* the caller's previous call was op and returned ret
After(snapshot, op, ret) == snapshot.last.op = op /\ snapshot.last.ret = ret

\* a track plays, its process runs, and no thread but its monitor is alive
PlayingSettled(snapshot) ==
  /\ snapshot.is_playing
  /\ snapshot.proc = "running"
  /\ snapshot.settled

\* every field but is_paused is as in the snapshot
SameButPaused(snapshot) ==
  /\ current_track = snapshot.current_track
  /\ is_playing = snapshot.is_playing
  /\ track_queue = snapshot.track_queue
  /\ track_history = snapshot.track_history
  /\ current_queue_index = snapshot.current_queue_index

\* C12: pause() is idempotent.  Called while PLAYING (the process running and
\* not ending during the call) it returns True and yields PAUSED, no other
\* field changed; called again right after, in that PAUSED state, it returns
\* False and leaves every field as it was after the first call.
C12_PauseIdempotent ==
  [][ /\ ( /\ Returns("pause")
           /\ PlayingSettled(pre')
           /\ ~pre'.is_paused
           /\ NoNaturalEnd' )
         => ( /\ threads'[Caller].ret = "True"
              /\ is_paused'
              /\ SameButPaused(pre)' )
      /\ ( /\ Returns("pause")
           /\ After(pre', "pause", "True")
           /\ pre'.is_paused )
         => ( /\ threads'[Caller].ret = "False"
              /\ is_paused'
              /\ SameFields(pre)'
              /\ mpv_process' = mpv_process
              /\ procs' = procs ) ]_vars

\* C12's case: two calls of pause() in a row, the first returned True, the
\* second False, and the track is still paused
C12_Witness ==
  /\ CallerDid("pause")
  /\ After(pre, "pause", "True")
  /\ pre.is_paused
  /\ threads[Caller].ret = "False"
  /\ is_playing
  /\ is_paused
  /\ HeldProcessRuns

\* the caller takes a step of its call of op
CallerStep(op) ==
  /\ threads'[Caller].op = op
  /\ threads'[Caller] # threads[Caller] \/ calls' # calls

\* nothing is playing: the player is STOPPED, or the process it holds is gone
\* or has exited
NothingPlays(snapshot) == ~snapshot.is_playing \/ snapshot.proc # "running"

\* no process was spawned since the call
NotReplaced == Len(procs) = pre.spawned

\* C13: pause() called when nothing is playing (STOPPED, or the track's
\* process has exited and nothing has replaced it) changes no state in any of
\* its steps, never gets as far as setting is_paused, and returns False.
C13_PauseNothingPlaying ==
  [][ ( /\ CallerStep("pause")
        /\ NothingPlays(pre')
        /\ NotReplaced' )
      => ( /\ UNCHANGED << player, mpv_process, procs >>
           /\ threads'[Caller].pc \notin { "pa_lock", "pa_set" }
           /\ threads'[Caller].pc = "idle" => threads'[Caller].ret = "False" ) ]_vars

\* C13's case: the track's process has exited, the monitor has reported it,
\* nothing has replaced it, and pause() has returned
C13_Witness ==
  /\ CallerDid("pause")
  /\ ~pre.is_playing
  /\ pre.proc = "ended"
  /\ NotReplaced
  /\ threads[Caller].ret = "False"
  /\ ~is_paused

\* C14: resume() called in PAUSED (the process running and not ending during
\* the call) returns True and yields PLAYING: is_playing true, is_paused false,
\* the same current_track, no other field changed.  Called when not paused
\* (PLAYING or STOPPED) it changes no state and returns False.
C14_ResumeFromPaused ==
  [][ /\ ( /\ Returns("resume")
           /\ PlayingSettled(pre')
           /\ pre'.is_paused
           /\ NoNaturalEnd' )
         => ( /\ threads'[Caller].ret = "True"
              /\ is_playing'
              /\ ~is_paused'
              /\ SameButPaused(pre)' )
      /\ ( /\ CallerStep("resume")
           /\ ~pre'.is_paused )
         => ( /\ UNCHANGED << player, mpv_process, procs >>
              /\ threads'[Caller].pc = "idle"
              /\ threads'[Caller].ret = "False" ) ]_vars

\* C14's case: resume() has returned True from PAUSED and the track plays
C14_Witness ==
  /\ CallerDid("resume")
  /\ PlayingSettled(pre)
  /\ pre.is_paused
  /\ threads[Caller].ret = "True"
  /\ is_playing
  /\ ~is_paused
  /\ current_track = pre.current_track
  /\ HeldProcessRuns

\* ------------------------------------------------------------------ state invariants
\* C15: in every reachable state, under every interleaving of pause/resume
\* with playback start, stop and the end-of-track handling, is_paused implies
\* is_playing.
C15_PausedImpliesPlaying == is_paused => is_playing

\* no two neighbours in the history have the same track id
NoConsecutiveRepeat ==
  \A i \in 1..(Len(track_history) - 1) :
    track_history[i].id # track_history[i + 1].id

\* the history is unchanged or has one more entry at its tail
GrowsAtTail ==
  \/ track_history' = track_history
  \/ /\ Len(track_history') = Len(track_history) + 1
     /\ SubSeq(track_history', 1, Len(track_history)) = track_history

\* thread t ends the locked state update of _play_track with this step
StartsPlayback(t) == threads[t].pc = "pt_update" /\ threads'[t].pc # "pt_update"

\* C16: the history only grows by appending at its tail and never holds two
\* consecutive entries with the same track id; starting playback of a track
\* whose id equals the last history entry appends nothing.  Every interleaving
\* of concurrent playback starts is covered.
C16_HistoryAppendOnly ==
  /\ []NoConsecutiveRepeat
  /\ [][ /\ GrowsAtTail
         /\ \A t \in Tids :
              ( /\ StartsPlayback(t)
                /\ track_history # <<>>
                /\ track_history[Len(track_history)].id = threads[t].track.id )
              => track_history' = track_history ]_vars

\* C16's case: a track with the id of the last history entry was started and
\* the history is as before
C16_Witness ==
  /\ CallerDid("search_and_play")
  /\ threads[Caller].ret = "True"
  /\ pre.track_history # <<>>
  /\ pre.track_history[Len(pre.track_history)].id = threads[Caller].track.id
  /\ track_history = pre.track_history
  /\ current_track = threads[Caller].track

\* ------------------------------------------------------------------ add_to_queue
\* the caller's call returns val with this step
ReturnsWith(op, val) == Returns(op) /\ threads'[Caller].ret = val

\* C17: a successful add_to_queue(query) appends exactly one track, the one
\* resolved for the query, at the queue tail, the earlier entries keeping
\* their places, and has no playback side effect: no step of the call changes
\* current_track, is_playing, is_paused, queue_index, the history, the process
\* handle or a process.
C17_AddToQueueAppends ==
  [][ CallerStep("add_to_queue")
      => ( /\ UNCHANGED << current_track, is_playing, is_paused, current_queue_index,
                           track_history, mpv_process, procs >>
           /\ IF ReturnsWith("add_to_queue", "True")
                THEN /\ track_queue' = Append(track_queue, threads'[Caller].track)
                     /\ threads'[Caller].track =
                          TrackOf(RecordFor(threads'[Caller].query))
                ELSE track_queue' = track_queue ) ]_vars

\* C17's case: a track was added to a queue of two while another plays
C17_Witness ==
  /\ CallerDid("add_to_queue")
  /\ threads[Caller].ret = "True"
  /\ pre.is_playing
  /\ Len(pre.track_queue) = 2
  /\ track_queue = Append(pre.track_queue, threads[Caller].track)
  /\ current_track = pre.current_track
  /\ track_history = pre.track_history
  /\ current_queue_index = pre.current_queue_index
  /\ is_playing
  /\ HeldProcessRuns

\* a provider run that gives no track: timeout, non-zero exit, empty output,
\* fewer than four fields
FailedRun(run) ==
  \/ run.timeout
  \/ run.returncode # 0
  \/ run.stdout = <<>>
  \/ Len(Split(run.stdout)) < 4

\* C18: when resolution fails inside add_to_queue (timeout, non-zero exit,
\* empty output, fewer than four fields) no track is resolved, and a call in
\* which none is resolved returns False, having raised nothing to the caller,
\* and with the queue and every other field unchanged.
C18_AddToQueueFailure ==
  /\ [](\A q \in CallerQueries : \A run \in ProviderRuns(q) :
          FailedRun(run) => ResolveTrack(run, q) = None)
  /\ [][ ( /\ Returns("add_to_queue")
           /\ threads'[Caller].track = None )
         => ( /\ threads'[Caller].ret = "False"
              /\ UNCHANGED << player, mpv_process, procs, monitor_thread,
                              should_stop_monitoring, lock >> ) ]_vars

\* C18's case: add_to_queue has failed on a queue of two while a track plays
C18_Witness ==
  /\ CallerDid("add_to_queue")
  /\ threads[Caller].track = None
  /\ threads[Caller].ret = "False"
  /\ pre.is_playing
  /\ Len(pre.track_queue) = 2
  /\ track_queue = pre.track_queue

\* ------------------------------------------------------------------ get_status
\* the dictionary get_status returns when every entry is read in this state
StatusOf ==
  [is_playing |-> is_playing,
   is_paused |-> is_paused,
   current_track |-> current_track,
   queue_length |-> Len(track_queue),
   queue_position |-> QueuePosition(current_queue_index),
   history_length |-> Len(track_history)]

\* a playback start or an end-of-track update is waiting for the lock
UpdateWaiting == \E t \in Tids \ {Caller} : threads[t].pc \in { "pt_lock", "mon_lock" }

TreatsAsEnded(t) == threads[t].pc = "mon_poll2" /\ threads'[t].pc = "mon_lock"

\* C20: a process exit caused by an explicit action (the termination done by
\* _stop_mpv for next_track, previous_track, search_and_play or stop) is never
\* treated as a natural end of track: while every join is in time, a monitor
\* goes on to the end-of-track update and next_track() only for a process that
\* ended on its own.
C20_ExplicitExitNotNaturalEnd ==
  [][ \A t \in Monitors :
        TreatsAsEnded(t) /\ OnTime => procs[mpv_process] = "ended" ]_vars

\* ------------------------------------------------------------------ stale monitors
\* monitor t was started for a track that a newer current track has replaced
StartedForOlder(t) ==
  /\ t \in Monitors
  /\ current_track # None
  /\ threads[t].track # None
  /\ threads[t].track.id # current_track.id

\* monitor t resets is_playing/is_paused for the end it detected
ResetsFlags(t) == threads[t].pc = "mon_set" /\ threads'[t].pc = "nt_lock"

\* monitor t runs the selection of next_track
SelectsNext(t) == threads[t].pc = "nt_body" /\ threads'[t].pc # "nt_body"

\* C21: a track-ended detection of an earlier playback session is discarded:
\* once a newer track is current, a monitor started for the older track
\* neither resets is_playing/is_paused nor runs the next-track selection
\* (while every join is in time).
C21_StaleEndDiscarded ==
  [][ \A t \in Monitors :
        StartedForOlder(t) /\ OnTime => ~ResetsFlags(t) /\ ~SelectsNext(t) ]_vars

\* ------------------------------------------------------------------ one monitor per track
\* the monitors that are in their loop while no cancellation is requested
Uncancelled == { t \in Monitors : Watching(t) /\ ~should_stop_monitoring }

\* monitor t polls the process of a track that replaced the one it was
\* started for
PollsNewerTrack(t) ==
  /\ StartedForOlder(t)
  /\ mpv_process # NoProcess
  /\ threads[t].pc = "mon_poll2"
  /\ threads'[t].pc # "mon_poll2"

\* C22: there is one monitor per playing track: while every join is in time,
\* at most one monitor is running un-cancelled at any instant, and a monitor
\* never watches a second track: it does not poll the process of a track
\* that replaced the one it was started for.
C22_OneMonitorPerTrack ==
  /\ [](OnTime => Cardinality(Uncancelled) <= 1)
  /\ [][ \A t \in Monitors : OnTime => ~PollsNewerTrack(t) ]_vars

\* ------------------------------------------------------------------ stop after a skip
\* every spawned thread has finished or is a monitor in its loop
WorkDone == \A t \in Tids \ {Caller} : IsAlive(t) => Watching(t)

\* C23: stop() is final with respect to earlier skips: when a play/search
\* worker spawned by next_track(), previous_track() or an auto-advance was at
\* work when stop() was called, then once stop() has returned and that worker
\* has finished the player is stopped, no process is live and no monitor is
\* running (stated for the behaviours in which no join of a monitor times out).
C23_StopFinalAfterSkip ==
  ( /\ OnTime
    /\ CallerDid("stop")
    /\ threads[Caller].ret = "True"
    /\ pre.workers # {}
    /\ WorkDone )
  => ( /\ ~is_playing
       /\ LiveProcs = {}
       /\ \A t \in Monitors : ~IsAlive(t) )

\* ------------------------------------------------------------------ next_track in the queue
\* C24: next_track() called with queue_index < len(queue) - 1 selects
\* queue[queue_index+1]; once playback has started that entry is the current
\* track and queue_index is one more than at the call, whatever the queue
\* holds, a track that occurs twice included.
C24_NextMovesForwardByOne ==
  ( /\ CallerDid("next_track")
    /\ pre.track_queue # <<>>
    /\ pre.current_queue_index < Len(pre.track_queue) - 1
    /\ pre.settled
    /\ OnTime
    /\ ChildPlayed )
  => ( /\ threads[child].track = pre.track_queue[pre.current_queue_index + 2]
       /\ current_track = pre.track_queue[pre.current_queue_index + 2]
       /\ current_queue_index = pre.current_queue_index + 1 )

\* ------------------------------------------------------------------ the index outside the queue
\* the current track is not an entry of the queue: it was started by a
\* search_and_play of the caller or by the fallback search of next_track
OutsideQueue == current_track # None /\ ~InQueue(track_queue, current_track)

\* C25: queue_index is -1 whenever the queue is empty or the current track is
\* not played from the queue, and get_status then reports queue_position 0.
C25_IndexOutsideQueue ==
  (track_queue = <<>> \/ OutsideQueue)
  => ( /\ current_queue_index = -1
       /\ StatusOf.queue_position = 0 )

\* ------------------------------------------------------------------ access under the lock
\* thread t takes a step of its operation
Steps(t) == threads'[t] # threads[t]

\* the step writes the process handle or a field of the player
WritesShared == mpv_process' # mpv_process \/ player' # player

\* C26: every write of the process handle, current_track, is_playing,
\* is_paused, the queue, queue_index and the history, by any thread, happens
\* while that thread holds the lock.
C26_SharedStateUnderLock ==
  [][ \A t \in Tids : Steps(t) /\ WritesShared => lock = t ]_vars

\* ------------------------------------------------------------------ previous_track restarts
\* previous_track() was called with nothing before the current track: the
\* index at 0 or below, fewer than two history entries, a current track
RestartCase ==
  /\ CallerDid("previous_track")
  /\ pre.current_queue_index <= 0
  /\ Len(pre.track_history) < 2
  /\ pre.current_track # None
  /\ pre.settled
  /\ OnTime

\* the thread previous_track() started has run to its end and no thread but
\* its monitor was started after it
ChildDone == Finished(child) /\ Len(threads) <= child + 1

\* the current track and the history are those of the call, and a process
\* spawned after the call has replaced the one held at the call
Restarted ==
  /\ current_track = pre.current_track
  /\ track_history = pre.track_history
  /\ Len(procs) = pre.spawned + 1
  /\ mpv_process = Len(procs)
  /\ \A p \in 1..pre.spawned : procs[p] # "running"

HandlerRuns(p) == p \in service.signals /\ p \notin service'.signals

\* the step starts a process or a background thread of the service
ServiceStarts ==
  \/ Len(service'.procs) > Len(service.procs)
  \/ Len(service'.jobs) > Len(service.jobs)

\* C27: in MusicService the end of a process that pause() or the replacement
\* of the track has killed does not trigger the finished-handler's
\* auto-advance or autoplay: the handler run for a killed process starts no
\* process and no thread, so nothing starts playing after pause() until the
\* caller's next call.
C27_KilledProcessNoAutoplay ==
  [][ \A p \in 1..Len(service.procs) :
        HandlerRuns(p) /\ service.procs[p] = "killed" => ~ServiceStarts ]_vars

\* ------------------------------------------------------------------ next at the tail
\* the service's index is at the last entry of a queue of several entries
ServiceAtTail ==
  /\ Len(service.track_queue) >= 2
  /\ service.current_queue_index = Len(service.track_queue) - 1

\* the step moves the service's index to an earlier entry of the same queue
ServiceIndexBack ==
  /\ service'.track_queue = service.track_queue
  /\ service'.current_queue_index < service.current_queue_index

\* what next_track() starts is a queue entry at or before the index
PlayerSelectsEarlier ==
  LET choice == NextTrackChoice(track_queue, current_queue_index, current_track)
  IN  /\ choice # None
      /\ choice.op = "_play_track"
      /\ \E i \in 1..(current_queue_index + 1) : track_queue[i] = choice.track

\* C28: advancing at the tail never wraps around: with the pointer at the
\* last queue entry, a next operation of either player never selects an
\* earlier queue entry.
C28_NextNeverWraps ==
  /\ [][ ServiceAtTail => ~ServiceIndexBack ]_vars
  /\ []( track_queue # <<>> /\ current_queue_index >= Len(track_queue) - 1
           => ~PlayerSelectsEarlier )

\* ------------------------------------------------------------------ recommendation tiers
\* the autoplay threads of the service
AutoplayJobs == { j \in 1..Len(service.jobs) : service.jobs[j].op = "_autoplay_recommended" }

\* the title of the track with this video id
TitleOf(video_id) == (CHOOSE r \in ProviderRecords : r.id = video_id).title

\* thread j has run the similar search
TriedSimilar(j) == service.jobs[j].similar # None

\* thread j has ended with no recommendation
NoRecommendation(j) ==
  /\ service.jobs[j].pc = "done"
  /\ service.jobs[j].video_id # None
  /\ service.jobs[j].track = None

\* C29: the recommendation lookup for a track tries its tiers strictly in
\* order: the similar search is run only after the related lookup keyed by
\* the track's id has given nothing, its query is "<title> similar songs"
\* for the title of that same track, and no recommendation is reported only
\* when both tiers have failed.
C29_TiersInOrder ==
  \A j \in AutoplayJobs :
    /\ TriedSimilar(j)
         => /\ service.jobs[j].related # None
            /\ RelatedResult(service.jobs[j].related) = None
            /\ service.jobs[j].similar = SimilarQuery(TitleOf(service.jobs[j].video_id))
    /\ NoRecommendation(j)
         => /\ service.jobs[j].related # None
            /\ RelatedResult(service.jobs[j].related) = None

\* ------------------------------------------------------------------ playing is recorded
\* C31: whenever playback of a track starts it is recorded: in every state
\* where is_playing is true the history is not empty and its last entry has
\* the id of current_track.
C31_PlayingIsRecorded ==
  is_playing
  => ( /\ current_track # None
       /\ track_history # <<>>
       /\ track_history[Len(track_history)].id = current_track.id )

\* C31's case: a second track has started after another one and is playing
C31_Witness ==
  /\ is_playing
  /\ Len(track_history) >= 2
  /\ Len(procs) >= 2
  /\ track_history[Len(track_history)].id = current_track.id
  /\ track_history[Len(track_history) - 1].id # current_track.id

\* ------------------------------------------------------------------ the queue's contents
\* C32: next_track(), previous_track() and the monitor's auto-advance only
\* move the pointer, they never add, remove or reorder queue entries: every
\* step that changes the queue is add_to_queue's append of the track it
\* resolved at the tail, or stop's clear, by the thread that holds the lock.
C32_QueueChangesOnlyByAddAndStop ==
  [][ track_queue' # track_queue
      => \E t \in Tids :
           /\ lock = t
           /\ \/ /\ threads[t].op = "add_to_queue"
                 /\ threads[t].pc = "aq_append"
                 /\ track_queue' = Append(track_queue, threads[t].track)
              \/ /\ threads[t].op = "stop"
                 /\ threads[t].pc = "st_update"
                 /\ track_queue' = <<>> ]_vars

\* C32's case: next_track()'s worker has started the next queue entry and the
\* pointer has moved with the queue as it was
C32_Witness ==
  /\ CallerDid("next_track")
  /\ ChildPlayed
  /\ track_queue # <<>>
  /\ track_queue = pre.track_queue
  /\ current_queue_index = pre.current_queue_index + 1

\* ------------------------------------------------------------------ _stop_mpv's handle
\* C33: when _stop_mpv returns or is left by an exception, the process handle
\* is empty, whether the process exited within the graceful timeout, was
\* killed after it, or an error occurred; and _stop_mpv entered with no
\* process held changes nothing and goes on to what follows it.
C33_StopMpvClearsHandle ==
  [][ \A t \in Tids :
        LET Inside(T) == T[t].pc \in {"sm_check", "sm_term", "sm_kill", "sm_finally"}
        IN  /\ Inside(threads) /\ ~Inside(threads') => mpv_process' = NoProcess
            /\ ( /\ threads[t].pc = "sm_check"
                 /\ threads'[t] # threads[t]
                 /\ mpv_process = NoProcess )
               => ( /\ UNCHANGED << mpv_process, player, procs, monitor_thread,
                                    should_stop_monitoring, lock >>
                    /\ threads'[t] = [threads[t] EXCEPT !.pc = AfterStopMpv(threads[t].op)] )
    ]_vars

\* C33's case: stop() was called with a running process held, _stop_mpv has
\* terminated or killed it and has returned, and the handle is empty
C33_Witness ==
  /\ threads[Caller].op = "stop"
  /\ threads[Caller].pc = "st_lock"
  /\ pre.proc = "running"
  /\ mpv_process = NoProcess
  /\ \E p \in DOMAIN procs : procs[p] = "killed"

\* ------------------------------------------------------------------ blocking calls and the lock
\* C34: no thread runs the provider, waits for a process to terminate or
\* joins the monitor while it holds the lock: the holder of the lock is inside
\* one of the `with self._lock` sections, a thread at a provider run, at
\* terminate()/wait()/kill() or at a join does not hold it, and add_to_queue
\* resolves its track without the lock and takes it for the append only.
C34_NoBlockingUnderLock ==
  /\ [](\A t \in Tids :
          /\ lock = t => threads[t].pc \in { "pt_update", "st_update", "mon_set",
                                             "nt_body", "pv_body", "pa_set", "re_set",
                                             "aq_append", "gs_flags", "gs_counts" }
          /\ threads[t].pc \in { "search", "aq_search", "sm_check", "sm_term",
                                 "sm_kill", "sm_finally", "smon_flag", "smon_join" }
             => lock # t)
  /\ [][ /\ threads'[Caller].op \in {"add_to_queue", "search_and_play", "stop"}
            /\ calls' # calls
            => lock # Caller /\ lock' # Caller
         /\ \A t \in Tids :
              threads[t].pc \in {"search", "sm_term", "sm_kill", "smon_join"}
              /\ threads'[t] # threads[t]
              => lock # t /\ lock' # t ]_vars

\* C34's case: add_to_queue has resolved its track and holds the lock for the
\* append while a worker of an earlier skip is at its provider run
C34_Witness ==
  /\ threads[Caller].op = "add_to_queue"
  /\ threads[Caller].pc = "aq_append"
  /\ lock = Caller
  /\ \E t \in Tids : threads[t].pc = "search"

\* ------------------------------------------------------------------ every operation returns
\* C35: every public operation returns and the system never deadlocks: a call
\* in progress eventually returns; stop() returns when the process has
\* ignored terminate() and has to be killed; and in no state are the threads
\* all blocked: a thread inside an operation can take a step, or waits for the
\* lock held by a thread that can.  (A thread that has to start another one
\* when the thread table is full, MaxThreads threads started, is left out.)
C35_OperationsReturn ==
  LET ThreadsExhausted == Len(threads) = 1 + MaxThreads
      Busy(t) == threads[t].pc \notin {"idle", "done"}
  IN  /\ (threads[Caller].pc # "idle")
           ~> (threads[Caller].pc = "idle" \/ ThreadsExhausted)
      /\ (threads[Caller].op = "stop" /\ threads[Caller].pc = "sm_kill")
           ~> (CallerDid("stop") \/ ThreadsExhausted)
      /\ [](\A t \in Tids :
              Busy(t) /\ ~ThreadsExhausted
              => \/ ENABLED ThreadStep(t)
                 \/ /\ lock \in Tids \ {t}
                    /\ LockedSection(threads[t].pc) # ""
                    /\ ENABLED ThreadStep(lock))

\* C35's case: stop() has returned True although the process had to be
\* killed and the join of the monitor timed out
C35_Witness ==
  /\ CallerDid("stop")
  /\ threads[Caller].ret = "True"
  /\ pre.proc = "running"
  /\ \E p \in DOMAIN procs : procs[p] = "killed"
  /\ \E t \in Monitors : threads[t].late

\* ------------------------------------------------------------------ the index's range
\* C36: in every reachable state -1 <= queue_index < len(queue), so the index
\* is -1 when the queue is empty, and get_status() reports
\* 0 <= queue_position <= queue_length.
C36_IndexInRange ==
  /\ [](/\ current_queue_index >= -1
        /\ current_queue_index < Len(track_queue)
        /\ track_queue = <<>> => current_queue_index = -1)
  /\ [][ Returns("get_status")
         => /\ threads'[Caller].status.queue_position >= 0
            /\ threads'[Caller].status.queue_position
                 <= threads'[Caller].status.queue_length ]_vars

\* C36's case: get_status() has returned with the last entry of a queue of
\* two or more playing, queue_position equal to queue_length
C36_Witness ==
  /\ CallerDid("get_status")
  /\ threads[Caller].ret = "dict"
  /\ threads[Caller].status.queue_length >= 2
  /\ threads[Caller].status.queue_position = threads[Caller].status.queue_length
  /\ current_queue_index = Len(track_queue) - 1

\* ------------------------------------------------------------------ playing has a track
\* C37: is_playing = true implies that current_track is not None.
C37_PlayingHasTrack == is_playing => current_track # None

\* C37's case: a track plays that was started from the stopped state, where
\* there was no current track
C37_Witness ==
  /\ pre # None
  /\ pre.current_track = None
  /\ ~pre.is_playing
  /\ is_playing
  /\ current_track # None
  /\ mpv_process # NoProcess

\* ------------------------------------------------------------------ resolving a record
\* C38: resolving a provider record yields a track whose id, title, artist
\* and duration are exactly the record's four values, for every title and
\* uploader, those that hold a '|' included, and an output with fewer than
\* four fields is rejected.
C38_ResolveKeepsFields ==
  [][ Returns("add_to_queue")
      => /\ \A r \in TitledRecords :
              threads'[Caller].status = PrintRecord(r)
              => /\ threads'[Caller].ret = "True"
                 /\ threads'[Caller].track.id = r.id
                 /\ threads'[Caller].track.title = r.title
                 /\ threads'[Caller].track.artist = r.uploader
                 /\ threads'[Caller].track.duration = r.duration
         /\ Len(Split(threads'[Caller].status)) < 4 => threads'[Caller].ret = "False"
    ]_vars

\* ------------------------------------------------------------------ the exit status
\* C39: the next-track decision after a process has exited does not depend on
\* its exit status.  With every non-zero exit taken for an exit with code 0
\* (Zeroed), each step that follows an exit does what it does for code 0: the
\* monitor's poll goes on to the end-of-track update, the thread its
\* next_track() starts is the choice made from the queue, the index and the
\* current track alone, and MusicService's finished-handler leaves the service
\* in the state it leaves it in for code 0.
C39_ExitStatusIgnored ==
  [][ LET Zeroed(P) == [p \in DOMAIN P |-> IF P[p] = "failed" THEN "ended" ELSE P[p]]
          ZeroedService(s) == [s EXCEPT !.procs = Zeroed(@)]
          Polled(t) ==
            IF mpv_process = NoProcess THEN Raise(threads, t, "AttributeError")
            ELSE IF Zeroed(procs)[mpv_process] = "running"
              THEN Goto(threads, t, "mon_loop")
            ELSE Goto(threads, t, "mon_lock")
          choice == NextTrackChoice(track_queue, current_queue_index, current_track)
          Handled(s0, p) ==
            LET s == [s0 EXCEPT !.signals = @ \ {p}]
            IN  IF ~s.running THEN s
                ELSE IF /\ s.track_queue # <<>>
                        /\ s.current_queue_index < Len(s.track_queue) - 1
                  THEN ServiceNext(s)
                ELSE [s EXCEPT !.jobs =
                        Append(@, NewJob("_autoplay_recommended", "ap_id", None))]
      IN  /\ \A t \in Monitors :
               /\ threads[t].pc = "mon_poll2" /\ Steps(t) => threads' = Polled(t)
               /\ threads[t].pc = "nt_body" /\ Steps(t)
                  => IF choice = None
                       THEN Len(threads') = Len(threads)
                       ELSE /\ Len(threads') = Len(threads) + 1
                            /\ threads'[Len(threads')] = choice
          /\ \A p \in 1..Len(service.procs) :
               HandlerRuns(p)
               => ZeroedService(service') = Handled(ZeroedService(service), p)
    ]_vars

\* C39's case: the first process has exited with a non-zero code, the monitor
\* has started the next queue entry and it plays
C39_Witness ==
  /\ Len(procs) >= 2
  /\ procs[1] = "failed"
  /\ is_playing
  /\ \E w \in Workers :
       /\ threads[w].op = "_play_track"
       /\ Finished(w)
       /\ threads[w].ret = "True"
       /\ current_track = threads[w].track

=============================================================================
